---- MODULE Spec2Model ----
(***************************************************************************)
(* The two token coordinators of the custom activity backend               *)
(* (getMockServiceToken in mockService.js, getSfmcAccessToken in           *)
(* sfmcService.js) and the request handlers that use them (/execute via    *)
(* sendPush, /api/templates via getTemplatesFromDE), as a state machine.   *)
(*                                                                         *)
(* Node.js runs one callback at a time: every action below is one          *)
(* callback together with the microtasks it schedules (promise             *)
(* continuations run before the event loop takes the next I/O event).      *)
(* Time is Date.now() in milliseconds.                                     *)
(***************************************************************************)
EXTENDS Integers, FiniteSets, Sequences, TLC

VARIABLES
    now,             \* Date.now(), in ms
    credsPresent,    \* AUTH_URI, CLIENT_ID, CLIENT_SECRET and MID are all set in process.env
    cachedToken,     \* cachedToken / sfmcCachedToken, per coordinator
    tokenExpiresAt,  \* tokenExpiresAt / sfmcTokenExpiresAt, per coordinator
    tokenPromise,    \* tokenPromise / sfmcTokenPromise, per coordinator
    nextId,          \* per coordinator: serial of the next promise created by `new Promise`
    fetches,         \* the token-endpoint requests (axios.post) that have not completed
    req,             \* the request handlers (one record per HTTP request)
    storedExpiresIn, \* history: the expires_in the cached token was stored with
    lastEvent,       \* history: the last thing that happened at each coordinator
    deployed,        \* which server runs: the modular one or one of the single-file ones
    activity,        \* per /execute request: the decoded payload and the push body made of it
    call             \* a call of a journeyUtils function: its arguments and its result

vars == <<now, credsPresent, cachedToken, tokenExpiresAt, tokenPromise, nextId,
          fetches, req, storedExpiresIn, lastEvent, deployed, activity, call>>

\* what the token coordinators and the clock never touch
dataVars == <<deployed, activity, call>>

coordVars == <<cachedToken, tokenExpiresAt, tokenPromise, nextId, fetches,
               storedExpiresIn, lastEvent>>

----------------------------------------------------------------------------
(* Bounds of the model *)

\* number of HTTP requests (handler executions) in one behaviour
MaxRequests == 3
\* the clock advances in steps of this many ms
TickStep == 500
\* the clock stops advancing here
MaxClock == 1500

(* Program constants *)

\* the 60-second safety buffer of the cache test, in ms
SafetyMarginMs == 60000
\* expiresInSeconds * 1000
MsPerSecond == 1000

Coordinators == {"mock", "sfmc"}
Requests == 1..MaxRequests
\* expires_in values (seconds) the token endpoint may answer with
ExpiresInValues == {0, 60, 61}

----------------------------------------------------------------------------
(* JavaScript values *)

Null == [t |-> "null"]
Undefined == [t |-> "undefined"]
NaN == [t |-> "nan"]
Num(v) == [t |-> "num", v |-> v]
Token(c, n) == [t |-> "tok", api |-> c, n |-> n]

\* a string is the sequence of its characters; an object is the sequence of its own
\* properties in insertion order (the order of for...in); an array is its items
Str(s) == [t |-> "str", s |-> s]
Obj(props) == [t |-> "obj", props |-> props]
Arr(items) == [t |-> "arr", items |-> items]
Prop(k, v) == [k |-> k, v |-> v]

\* JavaScript truthiness: null, undefined, NaN, 0 and "" are falsy
Truthy(x) ==
    \/ x.t = "tok"
    \/ x.t = "promise"
    \/ x.t = "num" /\ x.v # 0
    \/ x.t = "str" /\ x.s # <<>>
    \/ x.t \in {"obj", "arr"}

\* x * k: undefined * k is NaN, null * k is 0
JsTimes(x, k) ==
    CASE x.t = "num" -> Num(x.v * k)
      [] x.t = "null" -> Num(0)
      [] OTHER -> NaN

\* a + b on numbers; NaN when either side is NaN
JsPlus(a, b) ==
    IF a.t = "num" /\ b.t = "num" THEN Num(a.v + b.v) ELSE NaN

\* x - k: null - k is -k, NaN - k is NaN
JsMinus(x, k) ==
    CASE x.t = "num" -> Num(x.v - k)
      [] x.t = "null" -> Num(0 - k)
      [] OTHER -> NaN

\* a < b: false when either side is NaN
JsLess(a, b) ==
    a.t = "num" /\ b.t = "num" /\ a.v < b.v

----------------------------------------------------------------------------
(* Strings and objects *)

Min(S) == CHOOSE x \in S : \A y \in S : x <= y

\* s with its letters in lower case, for the letters of the model
LowerChar(ch) ==
    CASE ch = "N" -> "n"
      [] ch = "P" -> "p"
      [] ch = "E" -> "e"
      [] ch = "D" -> "d"
      [] ch = "S" -> "s"
      [] OTHER -> ch
Lower(s) == [i \in DOMAIN s |-> LowerChar(s[i])]

StartsWith(s, p) == Len(s) >= Len(p) /\ SubSeq(s, 1, Len(p)) = p

EndsWith(s, p) == Len(s) >= Len(p) /\ SubSeq(s, Len(s) - Len(p) + 1, Len(s)) = p

\* s.trim(); the space is the only whitespace character of the model
RECURSIVE Trim(_)
Trim(s) ==
    IF s # <<>> /\ Head(s) = " " THEN Trim(Tail(s))
    ELSE IF s # <<>> /\ s[Len(s)] = " " THEN Trim(SubSeq(s, 1, Len(s) - 1))
    ELSE s

\* s.split('.')
RECURSIVE Split(_)
Split(s) ==
    LET dots == {i \in 1..Len(s) : s[i] = "."}
    IN  IF dots = {} THEN <<s>>
        ELSE <<SubSeq(s, 1, Min(dots) - 1)>> \o Split(SubSeq(s, Min(dots) + 1, Len(s)))

\* a property every object, array, string and number inherits from its prototype:
\* toString stands for the names of Object.prototype
toString == <<"t", "o", "S", "t", "r", "i", "n", "g">>
length == <<"l", "e", "n", "g", "t", "h">>
Inherited(k) == IF k = toString THEN [t |-> "fn", name |-> k] ELSE Undefined

\* o[k] for a value o that is not null or undefined: an own property of an object,
\* an index or the length of an array, the length of a string, or an inherited one
Get(o, k) ==
    CASE o.t = "obj" ->
           IF \E i \in DOMAIN o.props : o.props[i].k = k
           THEN o.props[CHOOSE i \in DOMAIN o.props : o.props[i].k = k].v
           ELSE Inherited(k)
      [] o.t = "arr" ->
           IF k = <<"0">> /\ Len(o.items) >= 1 THEN o.items[1]
           ELSE IF k = length THEN Num(Len(o.items))
           ELSE Inherited(k)
      [] o.t = "str" ->
           IF k = length THEN Num(Len(o.s)) ELSE Inherited(k)
      [] OTHER -> Inherited(k)

\* the values of the enumerable properties of o, in the order of for...in
Values(o) ==
    IF o.t = "obj" THEN [i \in DOMAIN o.props |-> o.props[i].v] ELSE o.items

\* the decimal digits of a natural number
RECURSIVE DigitsOf(_)
DigitsOf(n) ==
    LET d == <<"0", "1", "2", "3", "4", "5", "6", "7", "8", "9">>[(n % 10) + 1]
    IN  IF n < 10 THEN <<d>> ELSE DigitsOf(n \div 10) \o <<d>>

\* String(v), as String.prototype.replace converts what its callback returns
ToStr(v) ==
    CASE v.t = "str" -> v.s
      [] v.t = "fn" -> <<"f", "u", "n", "c", "t", "i", "o", "n", " ", "t", "o", "S", "t", "r", "i", "n", "g", "(", ")", " ", "{", " ", "[", "n", "a", "t", "i", "v", "e", " ", "c", "o", "d", "e", "]", " ", "}">>
      [] v.t = "num" -> DigitsOf(v.v)
      [] v.t = "arr" /\ v.items = <<>> -> <<>>
      [] OTHER -> <<"[", "o", "b", "j", "e", "c", "t", " ", "O", "b", "j", "e", "c", "t", "]">>

----------------------------------------------------------------------------
(* journeyUtils: the data-binding resolver and the template personalizer *)

Event == <<"E", "v", "e", "n", "t">>

\* Variant: the last segment alone is looked up in the event data.
Walk_LastOnly(cur, parts, i) ==
    IF Truthy(cur) /\ Get(cur, parts[Len(parts)]) # Undefined
    THEN Get(cur, parts[Len(parts)])
    ELSE Null

\* the loop of the primary strategy: walk parts[i..] down from cur
RECURSIVE Walk(_, _, _)
Walk(cur, parts, i) ==
    IF i > Len(parts) THEN cur
    ELSE IF Truthy(cur) /\ Get(cur, parts[i]) # Undefined
         THEN Walk(Get(cur, parts[i]), parts, i + 1)
         ELSE Null

\* the fallback strategy: the first own property named field, depth first
RECURSIVE searchInObject(_, _)
RECURSIVE SearchFrom(_, _, _)
searchInObject(obj, field) ==
    IF ~Truthy(obj) \/ obj.t \notin {"obj", "arr"} THEN Null
    ELSE IF Get(obj, field) # Undefined THEN Get(obj, field)
    ELSE SearchFrom(Values(obj), field, 1)

\* Variant: the first value that is an object ends the search with what was found
\* in it, null included.
SearchFrom_FirstObjectDecides(vals, field, i) ==
    IF i > Len(vals) THEN Null
    ELSE IF vals[i].t \in {"obj", "arr"}
         THEN searchInObject(vals[i], field)
         ELSE SearchFrom(vals, field, i + 1)

\* for (const key in obj), from the i-th property on
SearchFrom(vals, field, i) ==
    IF i > Len(vals) THEN Null
    ELSE IF vals[i].t \in {"obj", "arr"} /\ searchInObject(vals[i], field) # Null
         THEN searchInObject(vals[i], field)
         ELSE SearchFrom(vals, field, i + 1)

\* Variant: plain text is returned without the blanks around it.
extractDataBindingValue_Trimmed(binding, data) ==
    IF ~Truthy(binding) \/ binding.t # "str" \/ Trim(binding.s) = <<>> THEN Null
    ELSE IF StartsWith(binding.s, <<"{", "{">>) /\ EndsWith(binding.s, <<"}", "}">>)
    THEN LET parts == Split(SubSeq(binding.s, 3, Len(binding.s) - 2))
         IN  IF Len(parts) >= 2 /\ parts[1] = Event
             THEN IF Truthy(Get(data, Event))
                  THEN Walk(Get(data, Event), parts, 2)
                  ELSE searchInObject(data, parts[Len(parts)])
             ELSE Null
    ELSE Str(Trim(binding.s))

\* Variant: only a falsy binding is rejected; what is not a string is handed back.
extractDataBindingValue_AnyType(binding, data) ==
    IF ~Truthy(binding) THEN Null
    ELSE IF binding.t # "str" THEN binding
    ELSE IF StartsWith(binding.s, <<"{", "{">>) /\ EndsWith(binding.s, <<"}", "}">>)
    THEN LET parts == Split(SubSeq(binding.s, 3, Len(binding.s) - 2))
         IN  IF Len(parts) >= 2 /\ parts[1] = Event
             THEN IF Truthy(Get(data, Event))
                  THEN Walk(Get(data, Event), parts, 2)
                  ELSE searchInObject(data, parts[Len(parts)])
             ELSE Null
    ELSE binding

\* Variant: the first segment of the path is not looked at.
extractDataBindingValue_AnyRoot(binding, data) ==
    IF ~Truthy(binding) \/ binding.t # "str" \/ Trim(binding.s) = <<>> THEN Null
    ELSE IF StartsWith(binding.s, <<"{", "{">>) /\ EndsWith(binding.s, <<"}", "}">>)
    THEN LET parts == Split(SubSeq(binding.s, 3, Len(binding.s) - 2))
         IN  IF Len(parts) >= 2
             THEN IF Truthy(Get(data, Event))
                  THEN Walk(Get(data, Event), parts, 2)
                  ELSE searchInObject(data, parts[Len(parts)])
             ELSE Null
    ELSE binding

extractDataBindingValue(binding, data) ==
    IF ~Truthy(binding) \/ binding.t # "str" \/ Trim(binding.s) = <<>> THEN Null
    ELSE IF StartsWith(binding.s, <<"{", "{">>) /\ EndsWith(binding.s, <<"}", "}">>)
    THEN LET parts == Split(SubSeq(binding.s, 3, Len(binding.s) - 2))
         IN  IF Len(parts) >= 2 /\ parts[1] = Event
             THEN IF Truthy(Get(data, Event))
                  THEN Walk(Get(data, Event), parts, 2)
                  ELSE searchInObject(data, parts[Len(parts)])
             ELSE Null
    ELSE binding

getInArgValue(inArgs, fieldName) ==
    IF ~Truthy(inArgs) \/ inArgs.t # "arr" \/ Len(inArgs.items) = 0 THEN Null
    ELSE Get(inArgs.items[1], fieldName)

\* `{{Event.DE.${fieldNameToFind}}}`
FakeBinding(fieldName) ==
    Str(<<"{", "{">> \o Event \o <<".", "D", "E", ".">> \o Trim(fieldName) \o <<"}", "}">>)

\* the positions in s where "%%" stands
Delims(s) == {i \in 1..(Len(s) - 1) : s[i] = "%" /\ s[i + 1] = "%"}

\* text.replace(/%%(.*?)%%/g, callback): the leftmost opening delimiter that has a
\* closing one, the nearest closing one, and on from behind it
RECURSIVE ReplaceAll(_, _)
ReplaceAll(s, data) ==
    LET opens == {i \in Delims(s) : \E j \in Delims(s) : j >= i + 2}
    IN  IF opens = {} THEN s
        ELSE LET i == Min(opens)
                 j == Min({k \in Delims(s) : k >= i + 2})
                 match == SubSeq(s, i, j + 1)
                 fieldName == SubSeq(s, i + 2, j - 1)
                 replacementValue == extractDataBindingValue(FakeBinding(fieldName), data)
             IN  SubSeq(s, 1, i - 1)
                   \o (IF replacementValue # Null THEN ToStr(replacementValue) ELSE match)
                   \o ReplaceAll(SubSeq(s, j + 2, Len(s)), data)

personalizeText(text, dataContext) ==
    IF ~Truthy(text) \/ text.t # "str" THEN text
    ELSE Str(ReplaceAll(text.s, dataContext))

----------------------------------------------------------------------------
(* The token endpoints *)

NetworkError == [t |-> "neterr"]

\* What the token endpoint of coordinator c may answer to the fetch of promise n
TokenResponses(c, n) ==
    {NetworkError} \cup
    { [t |-> "resp", access_token |-> a, expires_in |-> e] :
        a \in {Undefined, Token(c, n)},
        e \in {Undefined} \cup {Num(v) : v \in ExpiresInValues} }

----------------------------------------------------------------------------
(* The coordinators' tests *)

\* Variants of the cache test, each a slip the claims below must detect:
\* without the safety margin, with <= for <, and never trusting the cache.
UsableCache_NoMargin(c) ==
    /\ Truthy(cachedToken[c])
    /\ JsLess(Num(now), tokenExpiresAt[c])

UsableCache_Inclusive(c) ==
    /\ Truthy(cachedToken[c])
    /\ JsLess(Num(now), JsPlus(JsMinus(tokenExpiresAt[c], SafetyMarginMs), Num(1)))

UsableCache_Never(c) == FALSE

\* Case 1: cachedToken && Date.now() < (tokenExpiresAt - 60000)
UsableCache(c) ==
    /\ Truthy(cachedToken[c])
    /\ JsLess(Num(now), JsMinus(tokenExpiresAt[c], SafetyMarginMs))

\* Variant: Case 2 is missing, every caller without a usable token fetches.
InFlight_Never(c) == FALSE

\* Case 2: if (tokenPromise)
InFlight(c) == Truthy(tokenPromise[c])

\* The executor's check of process.env before the request (SFMC only)
ConfigPresent(c) == c = "sfmc" => credsPresent

\* The validation of the token endpoint's answer
ValidResponse(c, resp) ==
    /\ resp.t = "resp"
    /\ Truthy(resp.access_token)
    /\ (c = "mock" => Truthy(resp.expires_in))

\* What a handler catches: error.message and error.response?.status
Failure(message, status) == [t |-> "error", message |-> message, status |-> status]

\* What the executor rejects with: the environment check's Error, the error of
\* axios.post, or the Error thrown on an invalid answer
ConfigError == Failure("missing credentials", Undefined)

FetchError(resp) ==
    IF resp.t = "resp" THEN Failure("invalid token response", Undefined)
    ELSE Failure("request failed", Undefined)

\* Variant: the seconds are added to the milliseconds as they are.
ExpiryOf_Unconverted(resp) == JsPlus(Num(now), resp.expires_in)

\* Date.now() + (expiresInSeconds * 1000)
ExpiryOf(resp) == JsPlus(Num(now), JsTimes(resp.expires_in, MsPerSecond))

\* Variant: `finally` leaves the settled promise in the handle.
ClearedHandle_Kept == [t |-> "promise", id |-> 0, state |-> "rejected"]

\* finally { tokenPromise = null }
ClearedHandle == Null

----------------------------------------------------------------------------
(* Request handlers *)

\* Variant: both clients go through the mock-service coordinator.
CoordOf_Shared(kind) == "mock"

\* sendPush awaits getMockServiceToken(), getTemplatesFromDE awaits getSfmcAccessToken()
CoordOf(kind) == IF kind = "execute" THEN "mock" ELSE "sfmc"

\* started: the token requests this handler has started; calls: the authenticated
\* calls (POST /push, GET of the rows) it has issued; answer: what the push
\* endpoint did with its call; response: what the handler answered; sends: how many
\* times it has called res.json
NewRequest ==
    [pc |-> "new", kind |-> "none", promise |-> 0, initiator |-> FALSE,
     token |-> Null, source |-> "none", sent |-> "none",
     started |-> 0, calls |-> 0, answer |-> Null, response |-> Null, sends |-> 0]

\* The handler continues after `await getToken()` returned tok: /execute posts the
\* push, /api/templates gets the catalog rows (REST_URI is taken as configured).
GotToken(rec, tok, src) ==
    [rec EXCEPT !.pc = IF rec.kind = "execute" THEN "awaitPush" ELSE "awaitCatalog",
                !.token = tok, !.source = src, !.calls = @ + 1]

\* res.status(200).json({status: "ok", result: pushResponse.data})
OkResponse(data) == [code |-> 200, status |-> "ok", result |-> data]

\* Variant: the catch block answers without the details object.
ErrorResponse_NoDetails(error) ==
    [code |-> 500, status |-> "error", message |-> "push failed"]

\* The catch block of /execute: res.status(500).json({status: "error", message, details})
ErrorResponse(error) ==
    [code |-> 500, status |-> "error", message |-> "push failed",
     details |-> [errorMessage |-> error.message, statusCode |-> error.status]]

\* The single-file servers' own catch around the token request
TokenErrorResponse == [code |-> 500, status |-> "error", message |-> "token failed"]

\* The catch block of /api/templates
TemplatesErrorResponse == [code |-> 500, error |-> "templates failed"]

\* Variant: the catch block logs the error and returns without answering.
Responded_ErrorsOnlyLogged(rec, sent, response) ==
    IF sent = "error" THEN [rec EXCEPT !.pc = "done"]
    ELSE [rec EXCEPT !.pc = "done", !.sent = sent, !.response = response,
                     !.sends = @ + 1]

\* `return res.status(..).json(..)`: the handler has answered, and ends.
Responded(rec, sent, response) ==
    [rec EXCEPT !.pc = "done", !.sent = sent, !.response = response,
                !.sends = @ + 1]

\* Variant: the handler goes on to the push although it got no token.
TokenFailed_PushAnyway(rec, error) ==
    [rec EXCEPT !.pc = IF rec.kind = "execute" THEN "awaitPush" ELSE "awaitCatalog",
                !.calls = @ + 1]

\* `await getToken()` threw: the handler's catch answers 500.
TokenFailed(rec, error) ==
    Responded(rec, "error",
              IF rec.kind = "templates" THEN TemplatesErrorResponse
              ELSE IF deployed \in {"monolith", "inline"} THEN TokenErrorResponse
              ELSE ErrorResponse(error))

\* Waiting on promise n of its coordinator
Awaiting(rec, n, init) ==
    [rec EXCEPT !.pc = "awaitToken", !.promise = n, !.initiator = init,
                !.started = IF init THEN @ + 1 ELSE @]

\* Variant: only the caller that started the fetch is resumed when it settles.
Waiters_InitiatorOnly(c, n) ==
    {r \in Requests : /\ req[r].pc = "awaitToken"
                      /\ CoordOf(req[r].kind) = c
                      /\ req[r].promise = n
                      /\ req[r].initiator}

\* The handlers suspended on promise n of coordinator c (each returned that promise)
Waiters(c, n) ==
    {r \in Requests : /\ req[r].pc = "awaitToken"
                      /\ CoordOf(req[r].kind) = c
                      /\ req[r].promise = n}

----------------------------------------------------------------------------
(* POST /execute: from the decoded payload to the answer *)

\* The servers of the repository: the modular one (routes/activityRoutes.js with
\* services/mockService.js) and the single-file one with its own getAccessToken
Builds == {"modular", "monolith"}

\* the property names the handler reads
K_inArguments == <<"i", "n", "A", "r", "g", "u", "m", "e", "n", "t", "s">>
K_keyValue == <<"k", "e", "y", "V", "a", "l", "u", "e">>
K_customText == <<"c", "u", "s", "t", "o", "m", "T", "e", "x", "t">>
K_selectedTemplate == <<"s", "e", "l", "e", "c", "t", "e", "d", "T", "e", "m", "p", "l", "a", "t", "e">>
K_selectedTemplateMessage == <<"s", "e", "l", "e", "c", "t", "e", "d", "T", "e", "m", "p", "l", "a", "t", "e", "M", "e", "s", "s", "a", "g", "e">>
K_selectedDEField == <<"s", "e", "l", "e", "c", "t", "e", "d", "D", "E", "F", "i", "e", "l", "d">>
K_phone == <<"p", "h", "o", "n", "e">>
K_message == <<"m", "e", "s", "s", "a", "g", "e">>

\* activityPayload.inArguments || []
InArgs(activityPayload) ==
    LET a == Get(activityPayload, K_inArguments)
    IN  IF Truthy(a) THEN a ELSE Arr(<<>>)

\* argObject[fieldName] throws a TypeError when inArguments[0] is null
SyncThrows(activityPayload) ==
    LET inArgs == InArgs(activityPayload)
    IN  /\ inArgs.t = "arr"
        /\ Len(inArgs.items) > 0
        /\ inArgs.items[1].t \in {"null", "undefined"}

\* The push body the handler of the given server assembles from the payload
PushPayload(build, activityPayload) ==
    LET inArgs == InArgs(activityPayload)
        customText == getInArgValue(inArgs, K_customText)
        selectedTemplate == getInArgValue(inArgs, K_selectedTemplate)
        templateMessage == getInArgValue(inArgs, K_selectedTemplateMessage)
        deFieldBinding == getInArgValue(inArgs, K_selectedDEField)
        phoneBinding == getInArgValue(inArgs, K_phone)
        messageBinding == getInArgValue(inArgs, K_message)
        deFieldValue == extractDataBindingValue(deFieldBinding, activityPayload)
        phone == extractDataBindingValue(phoneBinding, activityPayload)
        message == extractDataBindingValue(messageBinding, activityPayload)
        personalized == personalizeText(templateMessage, activityPayload)
        messageToSend ==
            IF Truthy(personalized) THEN personalized
            ELSE IF build = "monolith" THEN templateMessage ELSE message
    IN  [contactKey |-> Get(activityPayload, K_keyValue),
         customText |-> customText,
         selectedTemplate |-> selectedTemplate,
         deFieldValue |-> deFieldValue,
         phone |-> phone,
         message |-> IF build = "monolith" THEN message ELSE messageToSend]

\* What the push endpoint may do with a POST /push
PushStatuses == {199, 200, 299, 300, 500}
PushBodies == {Null, Str(<<"s", "e", "n", "t">>)}
PushAnswer(status, data) == [t |-> "resp", status |-> status, data |-> data]
PushOutcomes ==
    {NetworkError} \cup {PushAnswer(s, d) : s \in PushStatuses, d \in PushBodies}

\* axios.post in sendPush: the answer, or (validateStatus left at its default) an
\* error for every status outside [200, 300) and for a failure of the network
AxiosResult(out) ==
    IF out.t = "resp" /\ out.status >= 200 /\ out.status < 300 THEN out
    ELSE Failure("request failed", IF out.t = "resp" THEN Num(out.status) ELSE Undefined)

\* Variant: the handler answers "ok" whatever the push call did.
Respond_AlwaysOk(result) ==
    OkResponse(IF result.t = "resp" THEN result.data ELSE Null)

\* The handler after `await sendPush(pushPayload)`: the status test, the throw in
\* its else branch and the catch block
Respond(result) ==
    IF result.t = "resp"
    THEN IF result.status >= 200 /\ result.status < 300
         THEN OkResponse(result.data)
         ELSE ErrorResponse(Failure("unexpected status", Undefined))
    ELSE ErrorResponse(result)

\* no journeyUtils call is under test
NoCall == [fn |-> "none"]

----------------------------------------------------------------------------
Init ==
    /\ now = 0
    /\ credsPresent \in BOOLEAN
    /\ cachedToken = [c \in Coordinators |-> Null]
    /\ tokenExpiresAt = [c \in Coordinators |-> Null]
    /\ tokenPromise = [c \in Coordinators |-> Null]
    /\ nextId = [c \in Coordinators |-> 1]
    /\ fetches = {}
    /\ req = [r \in Requests |-> NewRequest]
    /\ storedExpiresIn = [c \in Coordinators |-> Null]
    /\ lastEvent = [c \in Coordinators |-> "none"]
    /\ deployed = "modular"
    /\ activity = [r \in Requests |-> Null]
    /\ call = NoCall

\* The clock advances.
Tick ==
    /\ now + TickStep <= MaxClock
    /\ now' = now + TickStep
    /\ UNCHANGED <<credsPresent, coordVars, req, dataVars>>

\* The operator corrects the configuration: the missing credentials are set.
CorrectCredentials ==
    /\ ~credsPresent
    /\ credsPresent' = TRUE
    /\ UNCHANGED <<now, coordVars, req, dataVars>>

\* getMockServiceToken() / getSfmcAccessToken(), called by the handler of request r
\* of the given kind, up to the point where the handler is suspended or has answered.
\* hung: whether the token endpoint will ever answer a request started here.
AcquireToken(r, kind, hung) ==
    LET c == CoordOf(kind)
        rec == [req[r] EXCEPT !.kind = kind]
        n == nextId[c]
    IN  /\ lastEvent' = [lastEvent EXCEPT ![c] = "acquire"]
        /\ UNCHANGED <<cachedToken, tokenExpiresAt, storedExpiresIn>>
        /\ IF UsableCache(c)
           THEN \* Case 1: the cached token
                /\ req' = [req EXCEPT ![r] = GotToken(rec, cachedToken[c], "cache")]
                /\ UNCHANGED <<tokenPromise, nextId, fetches>>
           ELSE IF InFlight(c)
           THEN \* Case 2: the stored promise, pending or already rejected
                /\ req' = [req EXCEPT ![r] =
                             IF tokenPromise[c].state = "pending"
                             THEN Awaiting(rec, tokenPromise[c].id, FALSE)
                             ELSE TokenFailed(rec, ConfigError)]
                /\ UNCHANGED <<tokenPromise, nextId, fetches>>
           ELSE \* Case 3: new Promise(executor); the executor runs at once
                /\ nextId' = [nextId EXCEPT ![c] = n + 1]
                /\ IF ConfigPresent(c)
                   THEN \* the executor is suspended at `await axios.post(...)`
                        /\ fetches' = fetches \cup
                                        {[coord |-> c, id |-> n, hung |-> hung]}
                        /\ tokenPromise' = [tokenPromise EXCEPT ![c] =
                              [t |-> "promise", id |-> n, state |-> "pending"]]
                        /\ req' = [req EXCEPT ![r] = Awaiting(rec, n, TRUE)]
                   ELSE \* the executor throws before any await: it rejects and
                        \* runs `finally` inside `new Promise`, and only then is
                        \* the (rejected) promise assigned to the handle
                        /\ fetches' = fetches
                        /\ tokenPromise' = [tokenPromise EXCEPT ![c] =
                              [t |-> "promise", id |-> n, state |-> "rejected"]]
                        /\ req' = [req EXCEPT ![r] = TokenFailed(rec, ConfigError)]

\* Requests arrive in the order of their numbers.
Arrives(r) ==
    /\ req[r].pc = "new"
    /\ r > 1 => req[r - 1].pc # "new"

\* POST /execute (the JWT verified): the handler calls sendPush, which awaits
\* getMockServiceToken().
Execute(r) ==
    /\ Arrives(r)
    /\ AcquireToken(r, "execute", FALSE)
    /\ UNCHANGED <<now, credsPresent, dataVars>>

\* GET /api/templates: the handler calls getTemplatesFromDE, which awaits
\* getSfmcAccessToken().
Templates(r) ==
    /\ Arrives(r)
    /\ AcquireToken(r, "templates", FALSE)
    /\ UNCHANGED <<now, credsPresent, dataVars>>

\* Variant: a failed fetch also drops the token that was cached.
FetchRespond_DropsCache(f, resp) ==
    LET c == f.coord
        ws == Waiters(c, f.id)
    IN  /\ f \in fetches
        /\ ~f.hung
        /\ resp \in TokenResponses(c, f.id)
        /\ fetches' = fetches \ {f}
        /\ tokenPromise' = [tokenPromise EXCEPT ![c] = ClearedHandle]
        /\ IF ValidResponse(c, resp)
           THEN /\ cachedToken' = [cachedToken EXCEPT ![c] = resp.access_token]
                /\ tokenExpiresAt' = [tokenExpiresAt EXCEPT ![c] = ExpiryOf(resp)]
                /\ storedExpiresIn' = [storedExpiresIn EXCEPT ![c] = resp.expires_in]
                /\ lastEvent' = [lastEvent EXCEPT ![c] = "stored"]
                /\ req' = [r \in Requests |->
                             IF r \in ws
                             THEN GotToken(req[r], resp.access_token, "fetch")
                             ELSE req[r]]
           ELSE /\ cachedToken' = [cachedToken EXCEPT ![c] = Null]
                /\ tokenExpiresAt' = [tokenExpiresAt EXCEPT ![c] = Null]
                /\ UNCHANGED storedExpiresIn
                /\ lastEvent' = [lastEvent EXCEPT ![c] = "failed"]
                /\ req' = [r \in Requests |->
                             IF r \in ws THEN TokenFailed(req[r], FetchError(resp))
                                         ELSE req[r]]
        /\ UNCHANGED <<now, credsPresent, nextId, dataVars>>

\* The token endpoint answers the outstanding request f (or the request fails):
\* the executor resumes after `await axios.post(...)`.
FetchRespond(f, resp) ==
    LET c == f.coord
        ws == Waiters(c, f.id)
    IN  /\ f \in fetches
        /\ ~f.hung
        /\ resp \in TokenResponses(c, f.id)
        /\ fetches' = fetches \ {f}
        /\ tokenPromise' = [tokenPromise EXCEPT ![c] = ClearedHandle]
        /\ IF ValidResponse(c, resp)
           THEN /\ cachedToken' = [cachedToken EXCEPT ![c] = resp.access_token]
                /\ tokenExpiresAt' = [tokenExpiresAt EXCEPT ![c] = ExpiryOf(resp)]
                /\ storedExpiresIn' = [storedExpiresIn EXCEPT ![c] = resp.expires_in]
                /\ lastEvent' = [lastEvent EXCEPT ![c] = "stored"]
                /\ req' = [r \in Requests |->
                             IF r \in ws
                             THEN GotToken(req[r], resp.access_token, "fetch")
                             ELSE req[r]]
           ELSE /\ UNCHANGED <<cachedToken, tokenExpiresAt, storedExpiresIn>>
                /\ lastEvent' = [lastEvent EXCEPT ![c] = "failed"]
                /\ req' = [r \in Requests |->
                             IF r \in ws THEN TokenFailed(req[r], FetchError(resp))
                                         ELSE req[r]]
        /\ UNCHANGED <<now, credsPresent, nextId, dataVars>>

\* Variant: a failed push is sent again.
PushAnswers_Retry(r, out) ==
    /\ req[r].pc = "awaitPush"
    /\ req' = [req EXCEPT ![r] =
                 IF AxiosResult(out).t = "resp"
                 THEN Responded([@ EXCEPT !.answer = out], "ok", OkResponse(out.data))
                 ELSE [@ EXCEPT !.answer = out, !.calls = @ + 1]]
    /\ UNCHANGED <<now, credsPresent, coordVars, dataVars>>

\* The push endpoint answers request r's POST /push with out, or the call fails:
\* sendPush returns or throws, and the /execute handler answers.
PushAnswers(r, out) ==
    /\ req[r].pc = "awaitPush"
    /\ req' = [req EXCEPT ![r] =
                 LET response == Respond(AxiosResult(out))
                 IN  Responded([@ EXCEPT !.answer = out], response.status, response)]
    /\ UNCHANGED <<now, credsPresent, coordVars, dataVars>>

\* The same, the answer being 200 (ok) or the call failing on the network.
PushRespond(r, ok) ==
    PushAnswers(r, IF ok THEN PushAnswer(200, Null) ELSE NetworkError)

\* The Data Extension API answers request r's GET of the rows, or the call fails;
\* the /api/templates handler answers 200 or 500.
CatalogRespond(r, ok) ==
    /\ req[r].pc = "awaitCatalog"
    /\ req' = [req EXCEPT ![r] =
                 IF ok THEN Responded(@, "ok", [code |-> 200])
                 ELSE Responded(@, "error", TemplatesErrorResponse)]
    /\ UNCHANGED <<now, credsPresent, coordVars, dataVars>>

\* Some outstanding token request is answered, with any answer, or fails.
FetchResponds ==
    \E f \in fetches : \E resp \in TokenResponses(f.coord, f.id) : FetchRespond(f, resp)

\* Some push call is answered or fails.
PushResponds == \E r \in Requests : \E ok \in BOOLEAN : PushRespond(r, ok)

\* Some catalog call is answered or fails.
CatalogResponds == \E r \in Requests : \E ok \in BOOLEAN : CatalogRespond(r, ok)

Next ==
    \/ Tick
    \/ CorrectCredentials
    \/ \E r \in Requests : Execute(r)
    \/ \E r \in Requests : Templates(r)
    \/ FetchResponds
    \/ PushResponds
    \/ CatalogResponds

Spec == Init /\ [][Next]_vars

\* Both coordinators between two readings of the clock, where every token
\* request is answered in the end, well or badly: axios settles every request
\* it sent, and the event loop runs the callback of every request that settled.
SettleNext ==
    \/ CorrectCredentials
    \/ \E r \in Requests : Execute(r)
    \/ \E r \in Requests : Templates(r)
    \/ FetchResponds
    \/ PushResponds
    \/ CatalogResponds

SettleSpec == Init /\ [][SettleNext]_vars /\ WF_vars(FetchResponds)

----------------------------------------------------------------------------
(* Progress of /execute: the mock-service coordinator and its executions, where *)
(* the token endpoint may also leave a request unanswered for ever, and where   *)
(* every answer that does arrive is handled: the event loop runs every callback *)
(* that becomes ready.                                                          *)

\* POST /execute whose call of getMockServiceToken() starts a token request that
\* the endpoint never answers.
ExecuteHung(r) ==
    /\ Arrives(r)
    /\ ~UsableCache("mock")
    /\ ~InFlight("mock")
    /\ AcquireToken(r, "execute", TRUE)
    /\ UNCHANGED <<now, credsPresent, dataVars>>

LiveInit == Init /\ credsPresent

LiveNext ==
    \/ Tick
    \/ \E r \in Requests : Execute(r)
    \/ \E r \in Requests : ExecuteHung(r)
    \/ FetchResponds
    \/ PushResponds

LiveSpec ==
    /\ LiveInit
    /\ [][LiveNext]_vars
    /\ WF_vars(FetchResponds)
    /\ WF_vars(PushResponds)

----------------------------------------------------------------------------
(* The payloads of POST /execute *)

\* a property that may be absent from the JSON
OptProp(k, v) == IF v = Undefined THEN <<>> ELSE <<Prop(k, v)>>

Phone == <<"P", "h", "o", "n", "e">>
E1 == <<"E", "1">>
PhoneNumber == Str(<<"+", "3", "4", "1", "2", "3", "4", "5", "6", "7", "8">>)
PhoneBinding == Str(<<"{", "{", "E", "v", "e", "n", "t", ".", "E", "1", ".", "P", "h", "o", "n", "e", "}", "}">>)
HiPhone == Str(<<"H", "i", " ", "%", "%", "P", "h", "o", "n", "e", "%", "%">>)

\* The decoded JWT of an execution: inArguments[0] with the template message and
\* the phone and message bindings given (Undefined: absent), the contact key, the
\* event data under Event.E1 (or no Event key), and Phone also as a top-level key
Activity(templateMessage, phoneBinding, messageBinding, withEvent, topLevel) ==
    Obj(<<Prop(K_inArguments,
               Arr(<<Obj(<<Prop(K_customText, Str(<<"c">>)),
                           Prop(K_selectedTemplate, Str(<<"t">>))>>
                         \o OptProp(K_selectedTemplateMessage, templateMessage)
                         \o OptProp(K_phone, phoneBinding)
                         \o OptProp(K_message, messageBinding))>>)),
          Prop(K_keyValue, Str(<<"k">>))>>
        \o (IF withEvent
            THEN <<Prop(Event, Obj(<<Prop(E1, Obj(<<Prop(Phone, PhoneNumber)>>))>>))>>
            ELSE <<>>)
        \o (IF topLevel THEN <<Prop(Phone, PhoneNumber)>> ELSE <<>>))

\* the payload of the end-to-end example
EndToEndActivity == Activity(HiPhone, PhoneBinding, Undefined, TRUE, TRUE)

\* a payload whose phone binding names a field the event does not have and that
\* has neither a template message nor a message binding
UnresolvedActivity ==
    Activity(Undefined, Str(<<"{", "{", "E", "v", "e", "n", "t", ".", "E", "1", ".", "M", "o", "b", "i", "l", "e", "}", "}">>), Undefined, TRUE, FALSE)

\* a payload whose inArguments holds null
BrokenActivity == Obj(<<Prop(K_inArguments, Arr(<<Null>>))>>)

----------------------------------------------------------------------------
(* The executions of the activity: POST /execute of either server with its payload, *)
(* the token coordinator of the push service and the push endpoint.                 *)

\* number of executions in one behaviour
MaxExecutions == 2

Executions == 1..MaxExecutions

ExecActivities == {EndToEndActivity, UnresolvedActivity, BrokenActivity}

\* Variant: the push body is made of the payload of the execution before, which the
\* server has kept.
ExecuteWith_KeptPayload(r, p) ==
    /\ Arrives(r)
    /\ AcquireToken(r, "execute", FALSE)
    /\ activity' = [activity EXCEPT ![r] =
          [payload |-> p,
           body |-> PushPayload(deployed,
                                IF r > 1 /\ activity[r - 1] # Null /\ ~SyncThrows(activity[r - 1].payload)
                                THEN activity[r - 1].payload ELSE p)]]
    /\ ~SyncThrows(p)
    /\ UNCHANGED <<now, credsPresent, deployed, call>>

\* POST /execute (the JWT verified) with the decoded payload p: the handler reads
\* the arguments, resolves the bindings, personalizes the message, assembles the
\* push body and calls sendPush (getAccessToken in the single-file server), all
\* before its first await; an exception on the way is caught and answered.
ExecuteWith(r, p) ==
    /\ Arrives(r)
    /\ IF SyncThrows(p)
       THEN /\ req' = [req EXCEPT ![r] =
                        Responded([@ EXCEPT !.kind = "execute"], "error",
                                  ErrorResponse(Failure("TypeError", Undefined)))]
            /\ activity' = [activity EXCEPT ![r] = [payload |-> p, body |-> Null]]
            /\ UNCHANGED coordVars
       ELSE /\ AcquireToken(r, "execute", FALSE)
            /\ activity' = [activity EXCEPT ![r] =
                               [payload |-> p, body |-> PushPayload(deployed, p)]]
    /\ UNCHANGED <<now, credsPresent, deployed, call>>

\* Some execution arrives.
Executes == \E r \in Executions : \E p \in ExecActivities : ExecuteWith(r, p)

\* Some push call is answered, with any answer, or fails.
PushAnswered == \E r \in Requests : \E out \in PushOutcomes : PushAnswers(r, out)

ExecInit ==
    /\ now = 0
    /\ credsPresent = TRUE
    /\ cachedToken = [c \in Coordinators |-> Null]
    /\ tokenExpiresAt = [c \in Coordinators |-> Null]
    /\ tokenPromise = [c \in Coordinators |-> Null]
    /\ nextId = [c \in Coordinators |-> 1]
    /\ fetches = {}
    /\ req = [r \in Requests |-> NewRequest]
    /\ storedExpiresIn = [c \in Coordinators |-> Null]
    /\ lastEvent = [c \in Coordinators |-> "none"]
    /\ deployed \in Builds
    /\ activity = [r \in Requests |-> Null]
    /\ call = NoCall

ExecNext ==
    \/ Executes
    \/ FetchResponds
    \/ PushAnswered

ExecSpec == ExecInit /\ [][ExecNext]_vars

----------------------------------------------------------------------------
(* personalizeText as a function: one call with a template and a payload *)

\* longest template that is enumerated character by character
MaxTemplateLen == 6

TemplateChars == {"%", "n", "N"}

\* all strings over TemplateChars of length up to MaxTemplateLen
EnumeratedTemplates ==
    UNION {[1..l -> TemplateChars] : l \in 0..MaxTemplateLen}

\* templates with longer names, blanks, dots, two placeholders, inherited names
ExampleTemplates ==
    { <<"H", "i", " ", "%", "%", "P", "h", "o", "n", "e", "%", "%">>,
      <<"%", "%", " ", "n", " ", "%", "%">>,
      <<"%", "%", "n", "%", "%", " ", "%", "%", "N", "%", "%">>,
      <<"n", "%", "%", "N", "%", "%", "n", "%", "%", "x", "%", "%">>,
      <<"%", "%", "x", ".", "n", "%", "%">>,
      <<"%", "%", "t", "o", "S", "t", "r", "i", "n", "g", "%", "%">>,
      <<"%", "%", "l", "e", "n", "g", "t", "h", "%", "%">> }

TemplateTexts ==
    {Str(s) : s \in EnumeratedTemplates \cup ExampleTemplates} \cup {Null, Undefined}

K_n == <<"n">>
K_N == <<"N">>
K_x == <<"x">>
LowerV == Str(<<"v">>)
UpperV == Str(<<"V">>)

\* payloads without an Event key
PlainPayloads ==
    { Obj(<<>>),
      Obj(<<Prop(K_n, LowerV)>>),
      Obj(<<Prop(K_N, UpperV)>>),
      Obj(<<Prop(K_n, LowerV), Prop(K_N, UpperV)>>),
      Obj(<<Prop(K_x, Obj(<<Prop(K_n, LowerV)>>))>>),
      Obj(<<Prop(K_x, Obj(<<Prop(K_N, UpperV)>>)), Prop(K_n, LowerV)>>),
      Obj(<<Prop(K_x, Arr(<<Obj(<<Prop(K_n, LowerV)>>)>>))>>),
      Obj(<<Prop(K_x, Obj(<<Prop(K_n, UpperV)>>)), Prop(K_N, Obj(<<Prop(K_n, LowerV)>>))>>),
      Obj(<<Prop(K_n, Null)>>),
      Obj(<<Prop(K_n, Str(<<>>))>>),
      Obj(<<Prop(K_n, Null), Prop(K_x, Obj(<<Prop(K_n, LowerV)>>))>>),
      Obj(<<Prop(K_n, Obj(<<Prop(K_N, UpperV)>>))>>),
      Obj(<<Prop(Phone, PhoneNumber)>>),
      Obj(<<Prop(Event, Str(<<>>)), Prop(K_n, LowerV)>>) }

\* payloads with an Event key
EventPayloads ==
    { Obj(<<Prop(Event, Obj(<<Prop(E1, Obj(<<Prop(K_n, LowerV)>>))>>))>>),
      Obj(<<Prop(Event, Obj(<<Prop(E1, Obj(<<Prop(K_n, LowerV)>>))>>)), Prop(K_n, LowerV)>>),
      Obj(<<Prop(Event, Obj(<<Prop(<<"D", "E">>, Obj(<<Prop(K_n, UpperV)>>))>>)), Prop(K_n, LowerV)>>),
      Obj(<<Prop(Event, Obj(<<Prop(E1, Obj(<<Prop(Phone, PhoneNumber)>>))>>)),
            Prop(Phone, PhoneNumber)>>) }

Payloads == PlainPayloads \cup EventPayloads

\* the call has not returned
Pending == [t |-> "pending"]

\* the state of the server while a journeyUtils function is looked at on its own
Idle ==
    /\ now = 0
    /\ credsPresent = TRUE
    /\ cachedToken = [c \in Coordinators |-> Null]
    /\ tokenExpiresAt = [c \in Coordinators |-> Null]
    /\ tokenPromise = [c \in Coordinators |-> Null]
    /\ nextId = [c \in Coordinators |-> 1]
    /\ fetches = {}
    /\ req = [r \in Requests |-> NewRequest]
    /\ storedExpiresIn = [c \in Coordinators |-> Null]
    /\ lastEvent = [c \in Coordinators |-> "none"]
    /\ activity = [r \in Requests |-> Null]

PersonalizeInit ==
    /\ Idle
    /\ deployed = "modular"
    /\ \E text \in TemplateTexts : \E data \in Payloads :
          call = [fn |-> "personalizeText", text |-> text, data |-> data,
                  result |-> Pending]

\* personalizeText(text, dataContext) returns
Personalize ==
    /\ call.fn = "personalizeText"
    /\ call.result = Pending
    /\ call' = [call EXCEPT !.result = personalizeText(call.text, call.data)]
    /\ UNCHANGED <<now, credsPresent, coordVars, req, deployed, activity>>

PersonalizeSpec == PersonalizeInit /\ [][Personalize]_vars

----------------------------------------------------------------------------
(* The synchronous part of POST /execute as a function: from the decoded payload *)
(* to the push body, in either server.                                           *)

\* selectedTemplateMessage: absent, null, empty, with a placeholder the payload may
\* have a value for, without placeholder, with a placeholder it has no value for
TemplateMessages ==
    {Undefined, Null, Str(<<>>), HiPhone, Str(<<"H", "i">>), Str(<<"%", "%", "M", "o", "b", "i", "l", "e", "%", "%">>)}

\* a binding: absent, empty, blank, a path into the event data that exists, one that
\* does not, a path that does not start at Event, a literal
Bindings ==
    {Undefined, Str(<<>>), Str(<<" ">>), PhoneBinding, Str(<<"{", "{", "E", "v", "e", "n", "t", ".", "E", "1", ".", "M", "o", "b", "i", "l", "e", "}", "}">>),
     Str(<<"{", "{", "C", "o", "n", "t", "a", "c", "t", ".", "P", "h", "o", "n", "e", "}", "}">>), Str(<<"6", "0", "0">>)}

Activities ==
    {Activity(tm, ph, msg, ev, top) :
        tm \in TemplateMessages, ph \in Bindings, msg \in Bindings,
        ev \in BOOLEAN, top \in BOOLEAN}
    \cup {Obj(<<>>), BrokenActivity}

\* the handler threw before it had a push body
Thrown == [t |-> "thrown"]

AssembleInit ==
    /\ Idle
    /\ deployed \in Builds
    /\ \E p \in Activities :
          call = [fn |-> "pushPayload", payload |-> p, result |-> Pending]

\* The handler runs from its first line to the assembled pushPayload.
Assemble ==
    /\ call.fn = "pushPayload"
    /\ call.result = Pending
    /\ call' = [call EXCEPT !.result =
                   IF SyncThrows(call.payload) THEN Thrown
                   ELSE PushPayload(deployed, call.payload)]
    /\ UNCHANGED <<now, credsPresent, coordVars, req, deployed, activity>>

AssembleSpec == AssembleInit /\ [][Assemble]_vars

----------------------------------------------------------------------------
(* extractDataBindingValue as a function: one call with a binding and a payload *)

\* most segments of a binding's path, "Event" included
MaxSegments == 4

\* longest binding that is enumerated character by character
MaxBindingLen == 4

K_0 == <<"0">>

\* the names the segments of a path are taken from: keys of the payloads, an index,
\* and a name no payload has as a key
SegmentNames == {E1, K_n, K_x, K_0, length}

\* parts.join('.')
RECURSIVE Join(_)
Join(parts) ==
    IF Len(parts) = 1 THEN parts[1]
    ELSE parts[1] \o <<".">> \o Join(Tail(parts))

\* the binding "{{a.b.c}}" of the path <<a, b, c>>
PathBinding(parts) == Str(<<"{", "{">> \o Join(parts) \o <<"}", "}">>)

\* the paths that start at Event
EventPaths ==
    UNION {{<<Event>> \o rest : rest \in [1..l -> SegmentNames]} : l \in 0..(MaxSegments - 1)}

\* all strings of blanks, braces and a letter, of length up to MaxBindingLen
EnumeratedBindings ==
    UNION {[1..l -> {" ", "{", "}", "n"}] : l \in 0..MaxBindingLen}

\* a literal with blanks around it, a binding with a blank before or behind it, half
\* a binding, paths that do not start at Event, paths through inherited names
ExampleBindings ==
    { <<" ", "6", "0", "0", " ">>,
      <<"{", "{">> \o Event \o <<".", "E", "1", ".", "n", "}", "}", " ">>,
      <<" ", "{", "{">> \o Event \o <<".", "E", "1", ".", "n", "}", "}">>,
      <<"{", "{">> \o Event \o <<".", "E", "1", ".", "n">>,
      Event \o <<".", "E", "1", ".", "n", "}", "}">>,
      <<"{", "{", "C", "o", "n", "t", "a", "c", "t", ".", "n", "}", "}">>,
      <<"{", "{", "e", "v", "e", "n", "t", ".", "E", "1", ".", "n", "}", "}">>,
      <<"{", "{">> \o Event \o <<".", "E", "1", ".", "N", "}", "}">>,
      <<"{", "{">> \o Event \o <<".">> \o toString \o <<"}", "}">>,
      <<"{", "{">> \o Event \o <<".", "D", "E", ".">> \o toString \o <<"}", "}">> }

\* the binding the configuration form saves for a field when the schema gave it no
\* event definition key
FallbackBinding(field) ==
    Str(<<"{", "{", "C", "o", "n", "t", "a", "c", "t", ".",
          "A", "t", "t", "r", "i", "b", "u", "t", "e", ".",
          "D", "a", "t", "a", "E", "x", "t", "e", "n", "s", "i", "o", "n", ".">>
        \o field \o <<"}", "}">>)

\* bindings of paths, the form's fallback bindings, other strings, and what is not
\* a string: absent, null, numbers, an object, an array
ResolveBindings ==
    {PathBinding(parts) : parts \in EventPaths}
      \cup {FallbackBinding(field) : field \in SegmentNames}
      \cup {Str(s) : s \in EnumeratedBindings \cup ExampleBindings}
      \cup {Undefined, Null, Num(0), Num(5), Obj(<<Prop(K_n, LowerV)>>), Arr(<<>>)}

\* payloads whose event data is deeper, holds a null, a string or an array, and
\* payloads whose Event key holds no object
DeepPayloads ==
    { Obj(<<Prop(Event, Obj(<<Prop(E1, Obj(<<Prop(K_n, LowerV),
                                             Prop(K_x, Obj(<<Prop(K_n, UpperV)>>))>>))>>))>>),
      Obj(<<Prop(Event, Obj(<<Prop(E1, Obj(<<Prop(K_n, Null)>>))>>)), Prop(K_n, LowerV)>>),
      Obj(<<Prop(Event, Obj(<<Prop(E1, LowerV)>>)), Prop(K_n, UpperV)>>),
      Obj(<<Prop(Event, Obj(<<Prop(E1, Arr(<<Obj(<<Prop(K_n, LowerV)>>)>>))>>))>>),
      Obj(<<Prop(Event, Obj(<<>>)), Prop(K_n, LowerV)>>),
      Obj(<<Prop(Event, Null), Prop(K_n, LowerV)>>),
      Obj(<<Prop(Event, Num(0)), Prop(E1, Obj(<<Prop(K_n, LowerV)>>))>>),
      Obj(<<Prop(K_x, Obj(<<Prop(K_n, UpperV)>>)), Prop(K_n, LowerV)>>),
      Obj(<<Prop(K_x, Obj(<<Prop(K_n, Null)>>)), Prop(E1, Obj(<<Prop(K_n, LowerV)>>))>>),
      Obj(<<Prop(K_x, Obj(<<Prop(E1, Obj(<<Prop(K_n, UpperV)>>))>>)),
            Prop(E1, Obj(<<Prop(K_n, LowerV)>>))>>),
      Obj(<<Prop(K_x, Arr(<<Obj(<<Prop(K_n, LowerV)>>)>>)), Prop(K_0, UpperV)>>),
      Obj(<<Prop(K_x, Obj(<<Prop(K_n, Null), Prop(E1, Obj(<<Prop(K_n, UpperV)>>))>>)),
            Prop(E1, Obj(<<Prop(K_n, LowerV)>>))>>),
      Obj(<<Prop(K_x, Obj(<<Prop(K_n, UpperV)>>)), Prop(K_n, Null)>>),
      Obj(<<Prop(E1, LowerV)>>) }

ResolvePayloads == Payloads \cup DeepPayloads

ResolveInit ==
    /\ Idle
    /\ deployed = "modular"
    /\ \E binding \in ResolveBindings : \E data \in ResolvePayloads :
          call = [fn |-> "extractDataBindingValue", binding |-> binding, data |-> data,
                  result |-> Pending]

\* extractDataBindingValue(binding, data) returns
Resolve ==
    /\ call.fn = "extractDataBindingValue"
    /\ call.result = Pending
    /\ call' = [call EXCEPT !.result = extractDataBindingValue(call.binding, call.data)]
    /\ UNCHANGED <<now, credsPresent, coordVars, req, deployed, activity>>

ResolveSpec == ResolveInit /\ [][Resolve]_vars

----------------------------------------------------------------------------
(* extractDataBindingValue called again and again, as the handler of /execute *)
(* does for every field of every execution: the caller keeps the payload it    *)
(* passed and sees what the call left of it.                                   *)

\* most calls in a row
MaxCalls == 3

CallBindings ==
    { PathBinding(<<Event, E1, K_n>>), PathBinding(<<Event, K_n>>),
      PathBinding(<<Event, E1, length>>), Str(<<" ", "6", "0", "0", " ">>),
      Str(<<>>), Undefined }

CallPayloads ==
    { Obj(<<Prop(Event, Obj(<<Prop(E1, Obj(<<Prop(K_n, LowerV)>>))>>)), Prop(K_n, UpperV)>>),
      Obj(<<Prop(Event, Obj(<<Prop(E1, Arr(<<Obj(<<Prop(K_n, LowerV)>>)>>))>>))>>),
      Obj(<<Prop(K_x, Obj(<<Prop(K_n, UpperV)>>)), Prop(K_n, LowerV)>>),
      Obj(<<>>) }

\* a call that has not returned; returned is the history of the calls before it
ResolverCall(binding, data, returned) ==
    [fn |-> "resolver", binding |-> binding, data |-> data, result |-> Pending,
     returned |-> returned]

CallsInit ==
    /\ Idle
    /\ deployed = "modular"
    /\ \E binding \in CallBindings : \E data \in CallPayloads :
          call = ResolverCall(binding, data, <<>>)

\* Variant: the call leaves an Event key in a payload that had none.
ResolverReturns_Normalizing ==
    /\ call.fn = "resolver"
    /\ call.result = Pending
    /\ LET result == extractDataBindingValue(call.binding, call.data)
           after == IF Get(call.data, Event) = Undefined
                    THEN Obj(call.data.props \o <<Prop(Event, Obj(<<>>))>>)
                    ELSE call.data
       IN  call' = [call EXCEPT
                      !.result = result,
                      !.data = after,
                      !.returned = Append(@, [binding |-> call.binding,
                                              data |-> call.data,
                                              result |-> result])]
    /\ UNCHANGED <<now, credsPresent, coordVars, req, deployed, activity>>

\* The call returns: the function assigns to nothing but its own locals, so the
\* binding and the payload the caller holds are what they were.
ResolverReturns ==
    /\ call.fn = "resolver"
    /\ call.result = Pending
    /\ LET result == extractDataBindingValue(call.binding, call.data)
       IN  call' = [call EXCEPT
                      !.result = result,
                      !.returned = Append(@, [binding |-> call.binding,
                                              data |-> call.data,
                                              result |-> result])]
    /\ UNCHANGED <<now, credsPresent, coordVars, req, deployed, activity>>

\* The next call: of the same execution with the payload as the last call left it,
\* or of another execution with its own payload
ResolverCalled ==
    /\ call.fn = "resolver"
    /\ call.result # Pending
    /\ Len(call.returned) < MaxCalls
    /\ \E binding \in CallBindings : \E data \in CallPayloads \cup {call.data} :
          call' = ResolverCall(binding, data, call.returned)
    /\ UNCHANGED <<now, credsPresent, coordVars, req, deployed, activity>>

CallsNext == ResolverReturns \/ ResolverCalled

CallsSpec == CallsInit /\ [][CallsNext]_vars

----------------------------------------------------------------------------
(* getTemplatesFromDE: from the body of the rowset answer to the templates *)

\* most rows of a rowset answer
MaxRows == 3

\* a row of the data extension as the rowset API gives it: an object of the key
\* fields and an object of the other fields; a field may be missing
Row(id, name, message) ==
    Obj(<<Prop(<<"k", "e", "y", "s">>, Obj(OptProp(<<"t", "e", "m", "p", "l", "a", "t", "e", "i", "d">>, id))),
          Prop(<<"v", "a", "l", "u", "e", "s">>, Obj(OptProp(<<"t", "e", "m", "p", "l", "a", "t", "e", "n", "a", "m", "e">>, name) \o OptProp(<<"t", "e", "m", "p", "l", "a", "t", "e", "m", "e", "s", "s", "a", "g", "e">>, message)))>>)

Rows ==
    { Row(Str(<<"1">>), Str(<<"a">>), HiPhone),
      Row(Str(<<"2">>), Str(<<"b">>), Str(<<>>)),
      Row(Str(<<"1">>), Str(<<"a">>), Undefined),
      Row(Undefined, Str(<<"b">>), Null),
      Row(Undefined, Undefined, Undefined) }

\* deResponse.data: a rowset of up to MaxRows rows, with or without other fields,
\* a body without items, with items null, no body
CatalogBodies ==
    UNION {{Obj(<<Prop(<<"i", "t", "e", "m", "s">>, Arr(rows))>>),
            Obj(<<Prop(<<"c", "o", "u", "n", "t">>, Num(Len(rows))), Prop(<<"i", "t", "e", "m", "s">>, Arr(rows))>>)}
              : rows \in UNION {[1..l -> Rows] : l \in 0..MaxRows}}
      \cup {Obj(<<>>), Obj(<<Prop(<<"c", "o", "u", "n", "t">>, Num(0))>>), Obj(<<Prop(<<"i", "t", "e", "m", "s">>, Null)>>),
            Null, Undefined, Str(<<>>)}

\* Variant: nothing is returned for a rowset without rows.
MapRows_NullWhenEmpty(data) ==
    IF Truthy(data) /\ Truthy(Get(data, <<"i", "t", "e", "m", "s">>)) /\ Get(data, <<"i", "t", "e", "m", "s">>).items # <<>>
    THEN LET items == Get(data, <<"i", "t", "e", "m", "s">>).items
         IN  Arr([i \in DOMAIN items |->
                    Obj(<<Prop(<<"i", "d">>, Get(Get(items[i], <<"k", "e", "y", "s">>), <<"t", "e", "m", "p", "l", "a", "t", "e", "i", "d">>)),
                          Prop(<<"n", "a", "m", "e">>, Get(Get(items[i], <<"v", "a", "l", "u", "e", "s">>), <<"t", "e", "m", "p", "l", "a", "t", "e", "n", "a", "m", "e">>)),
                          Prop(K_message, Get(Get(items[i], <<"v", "a", "l", "u", "e", "s">>), <<"t", "e", "m", "p", "l", "a", "t", "e", "m", "e", "s", "s", "a", "g", "e">>))>>)])
    ELSE Null

\* what getTemplatesFromDE returns for the body data of a 2xx answer
MapRows(data) ==
    IF Truthy(data) /\ Truthy(Get(data, <<"i", "t", "e", "m", "s">>))
    THEN LET items == Get(data, <<"i", "t", "e", "m", "s">>).items
         IN  Arr([i \in DOMAIN items |->
                    Obj(<<Prop(<<"i", "d">>, Get(Get(items[i], <<"k", "e", "y", "s">>), <<"t", "e", "m", "p", "l", "a", "t", "e", "i", "d">>)),
                          Prop(<<"n", "a", "m", "e">>, Get(Get(items[i], <<"v", "a", "l", "u", "e", "s">>), <<"t", "e", "m", "p", "l", "a", "t", "e", "n", "a", "m", "e">>)),
                          Prop(K_message, Get(Get(items[i], <<"v", "a", "l", "u", "e", "s">>), <<"t", "e", "m", "p", "l", "a", "t", "e", "m", "e", "s", "s", "a", "g", "e">>))>>)])
    ELSE Arr(<<>>)

CatalogInit ==
    /\ Idle
    /\ deployed = "modular"
    /\ \E data \in CatalogBodies :
          call = [fn |-> "getTemplatesFromDE", data |-> data, result |-> Pending]

\* axios.get has returned a 2xx answer with the body call.data; the function maps
\* it and returns
CatalogMapped ==
    /\ call.fn = "getTemplatesFromDE"
    /\ call.result = Pending
    /\ call' = [call EXCEPT !.result = MapRows(call.data)]
    /\ UNCHANGED <<now, credsPresent, coordVars, req, deployed, activity>>

CatalogSpec == CatalogInit /\ [][CatalogMapped]_vars

----------------------------------------------------------------------------
(* The oldest single-file server (index.js): POST /execute asks for the token *)
(* itself, with a cached token and its expiry but no handle of a request      *)
(* under way.                                                                 *)

\* POST /execute up to its first await: the cached token if it is usable, else a
\* token request of its own
InlineExecute(r) ==
    LET rec == [req[r] EXCEPT !.kind = "execute"]
        n == nextId["mock"]
    IN  /\ Arrives(r)
        /\ lastEvent' = [lastEvent EXCEPT !["mock"] = "acquire"]
        /\ IF UsableCache("mock")
           THEN /\ req' = [req EXCEPT ![r] = GotToken(rec, cachedToken["mock"], "cache")]
                /\ UNCHANGED <<nextId, fetches>>
           ELSE /\ nextId' = [nextId EXCEPT !["mock"] = n + 1]
                /\ fetches' = fetches \cup {[coord |-> "mock", id |-> n, hung |-> FALSE]}
                /\ req' = [req EXCEPT ![r] = Awaiting(rec, n, TRUE)]
        /\ UNCHANGED <<now, credsPresent, cachedToken, tokenExpiresAt, tokenPromise,
                       storedExpiresIn, dataVars>>

InlineInit ==
    /\ Idle
    /\ deployed = "inline"
    /\ call = NoCall

\* A request arrives, a token request is answered (the handler that sent it
\* validates the answer, stores the token and goes on, or answers 500), or a push
\* call is answered.
InlineNext ==
    \/ \E r \in Requests : InlineExecute(r)
    \/ FetchResponds
    \/ PushResponds

InlineSpec == InlineInit /\ [][InlineNext]_vars

----------------------------------------------------------------------------
(* Vocabulary of the claims *)

\* The API each kind of request is a client of
ApiOf(kind) == IF kind = "execute" THEN "mock" ELSE "sfmc"

\* Request r called acquireToken in this step
Called(r) == req[r].pc = "new" /\ req'[r].pc # "new"

\* Request r called acquireToken on coordinator c in this step
CalledOn(r, c) == Called(r) /\ ApiOf(req'[r].kind) = c

\* Request r was handed a token in this step
Handed(r) == req[r].token = Null /\ req'[r].token # Null

\* The requests suspended on coordinator c's token
AwaitingAt(c) ==
    {r \in Requests : req[r].pc = "awaitToken" /\ ApiOf(req[r].kind) = c}

\* A cached token exists and now < expiry - 60 s, read off the state
CacheFresh(c) ==
    /\ cachedToken[c].t = "tok"
    /\ tokenExpiresAt[c].t = "num"
    /\ now < tokenExpiresAt[c].v - 60000

\* The outstanding request f completed in this step
Completed(f) == f \in fetches /\ f \notin fetches'

\* The request r started a token fetch in this step
StartedFetch(r, c) ==
    /\ req'[r].pc = "awaitToken"
    /\ req'[r].initiator
    /\ \E f \in fetches' : f \notin fetches /\ f.coord = c /\ f.id = req'[r].promise
    /\ tokenPromise'[c].t = "promise"
    /\ tokenPromise'[c].id = req'[r].promise

----------------------------------------------------------------------------
\* C1: for each coordinator, in every reachable state, at most one token-fetch
\* request to the token endpoint is outstanding.
C1_AtMostOneFetch ==
    \A c \in Coordinators : Cardinality({f \in fetches : f.coord = c}) <= 1

\* Both coordinators have a fetch outstanding, two callers wait on the mock one.
C1_Witness ==
    /\ \A c \in Coordinators : Cardinality({f \in fetches : f.coord = c}) = 1
    /\ Cardinality(AwaitingAt("mock")) = 2

\* C2: callers that arrive while no usable token is cached and a fetch is pending
\* all wait on the one fetch, which was issued once (one of them started it), and
\* callers that waited on the same fetch receive the same outcome: the same token.
C2_Coalesced ==
    /\ \A c \in Coordinators :
         AwaitingAt(c) # {} =>
           /\ Cardinality({f \in fetches : f.coord = c}) = 1
           /\ \A r \in AwaitingAt(c) :
                \E f \in fetches : f.coord = c /\ f.id = req[r].promise
           /\ Cardinality({r \in AwaitingAt(c) : req[r].initiator}) = 1
    /\ \A r1, r2 \in Requests :
         ( /\ req[r1].promise # 0
           /\ req[r1].promise = req[r2].promise
           /\ req[r1].kind = req[r2].kind )
         => /\ req[r1].pc = "awaitToken" <=> req[r2].pc = "awaitToken"
            /\ req[r1].token = req[r2].token

\* Three callers waited on the first mock fetch and hold its token.
C2_Witness ==
    \A r \in 1..3 :
       /\ req[r].kind = "execute"
       /\ req[r].promise = 1
       /\ req[r].source = "fetch"
       /\ req[r].token = Token("mock", 1)

\* C3: when a token fetch fails (network error or invalid response) the in-flight
\* handle is cleared, every caller waiting on that fetch gets the failure, the
\* coordinator issues no request of its own, and the next acquireToken call after
\* the failure starts a new fetch.
C3_FailureClearsAndPropagates ==
    [][ \A c \in Coordinators :
          /\ \A f \in fetches :
               ( /\ f.coord = c
                 /\ Completed(f)
                 /\ cachedToken'[c] # Token(c, f.id) )
               => /\ tokenPromise'[c] = Null
                  /\ \A r \in AwaitingAt(c) :
                       req[r].promise = f.id =>
                         /\ req'[r].pc = "done"
                         /\ req'[r].sent = "error"
                         /\ req'[r].token = Null
                  /\ {g \in fetches' : g.coord = c} = {}
          /\ \A r \in Requests :
               (lastEvent[c] = "failed" /\ CalledOn(r, c)) => StartedFetch(r, c)
      ]_vars

\* Two callers were failed by the first fetch, and a third started the second.
C3_Witness ==
    \E c \in Coordinators :
       /\ \A r \in 1..2 : /\ ApiOf(req[r].kind) = c
                          /\ req[r].promise = 1
                          /\ req[r].sent = "error"
       /\ ApiOf(req[3].kind) = c
       /\ req[3].pc = "awaitToken"
       /\ req[3].initiator
       /\ req[3].promise = 2

\* C4: a getSfmcAccessToken call made while a credential is absent fails, and once
\* the credentials are present a later call that finds no usable token starts a
\* real token fetch.
C4_RetryAfterCorrection ==
    [][ \A r \in Requests :
          CalledOn(r, "sfmc") =>
            /\ ~credsPresent => (req'[r].pc = "done" /\ req'[r].sent = "error")
            /\ ( /\ credsPresent
                 /\ ~CacheFresh("sfmc")
                 /\ {f \in fetches : f.coord = "sfmc"} = {} )
               => StartedFetch(r, "sfmc")
      ]_vars

\* C5 (as claimed): whenever a token is handed to a caller, from the cache or from
\* a just-completed fetch, now < expiry - 60 s holds for it at that moment.
C5_EveryHandedTokenFresh ==
    [][ \A r \in Requests :
          Handed(r) =>
            LET c == ApiOf(req'[r].kind)
            IN  /\ tokenExpiresAt'[c].t = "num"
                /\ now' < tokenExpiresAt'[c].v - 60000
      ]_vars

\* C5 (amended): whenever a token is handed to a caller from the cache, it is the
\* cached token and now < expiry - 60 s holds at that moment.
C5_CachedTokenFresh ==
    [][ \A r \in Requests :
          (Handed(r) /\ req'[r].source = "cache") =>
            LET c == ApiOf(req'[r].kind)
            IN  /\ req'[r].token = cachedToken[c]
                /\ tokenExpiresAt[c].t = "num"
                /\ now < tokenExpiresAt[c].v - 60000
      ]_vars

\* A token was served from the cache after the clock had advanced.
C5_Witness ==
    \E r \in Requests :
       /\ req[r].source = "cache"
       /\ now > 0
       /\ CacheFresh(ApiOf(req[r].kind))

\* C6: a call that finds a cached token with now < expiry - 60 s returns that token,
\* issues no token-fetch request and leaves the cached token, the expiry and the
\* in-flight handle as they were.
C6_CacheHitIsReadOnly ==
    [][ \A c \in Coordinators : \A r \in Requests :
          (CacheFresh(c) /\ CalledOn(r, c)) =>
            /\ req'[r].token = cachedToken[c]
            /\ req'[r].pc \in {"awaitPush", "awaitCatalog"}
            /\ fetches' = fetches
            /\ cachedToken' = cachedToken
            /\ tokenExpiresAt' = tokenExpiresAt
            /\ tokenPromise' = tokenPromise
      ]_vars

\* One caller fetched a token and two later callers were served it from the cache.
C6_Witness ==
    /\ req[1].source = "fetch"
    /\ \A r \in 2..3 : req[r].source = "cache" /\ req[r].token = req[1].token
    /\ fetches = {}

\* C7: a token stored with expires_in <= 60 is never served from the cache, and
\* the first call after the fetch that stored it starts a new fetch.
C7_ShortLivedNeverServed ==
    [][ \A c \in Coordinators : \A r \in Requests :
          ( /\ CalledOn(r, c)
            /\ cachedToken[c].t = "tok"
            /\ storedExpiresIn[c].t = "num"
            /\ storedExpiresIn[c].v <= 60 )
          => /\ req'[r].source # "cache"
             /\ req'[r].token = Null
             /\ lastEvent[c] = "stored" => StartedFetch(r, c)
      ]_vars

\* A token stored with expires_in = 60 is cached and the next caller is fetching.
C7_Witness ==
    \E c \in Coordinators : \E r \in Requests :
       /\ cachedToken[c] = Token(c, 1)
       /\ storedExpiresIn[c] = Num(60)
       /\ ApiOf(req[r].kind) = c
       /\ req[r].pc = "awaitToken"
       /\ req[r].initiator
       /\ req[r].promise = 2

\* C8: an answer of the token endpoint that lacks the access token or lacks
\* expires_in fails every waiter and stores no token and no expiry, at both
\* coordinators.
C8_MalformedResponseRejected ==
    [][ \A f \in fetches :
          \A resp \in TokenResponses(f.coord, f.id) :
            ( /\ resp.t = "resp"
              /\ (resp.access_token = Undefined \/ resp.expires_in = Undefined)
              /\ FetchRespond(f, resp) )
            => /\ cachedToken' = cachedToken
               /\ tokenExpiresAt' = tokenExpiresAt
               /\ \A r \in AwaitingAt(f.coord) :
                    req[r].promise = f.id =>
                      (req'[r].sent = "error" /\ req'[r].token = Null)
      ]_vars

\* The fetch that request r waits on will never be answered
OnHungFetch(r) ==
    /\ req[r].pc = "awaitToken"
    /\ \E f \in fetches :
          f.coord = ApiOf(req[r].kind) /\ f.id = req[r].promise /\ f.hung

\* C9 (as claimed): a token fetch that never completes delays only the execution
\* that started it: every other /execute request that has to wait for a token
\* eventually receives a response.
C9_OnlyInitiatorDelayed ==
    \A r \in Requests :
       (req[r].kind = "execute" /\ req[r].pc = "awaitToken" /\ ~req[r].initiator)
         ~> (req[r].pc = "done")

\* C9 (amended): a token fetch that never completes delays every execution that
\* waits on it, the one that started it and the ones coalesced onto it, for ever;
\* every request that is not waiting on such a fetch eventually receives a response.
C9_WaitersShareTheDelay ==
    /\ \A r \in Requests :
          (req[r].pc # "new" /\ ~OnHungFetch(r)) ~> (req[r].pc = "done")
    /\ [][ \A r \in Requests : OnHungFetch(r) => OnHungFetch(r)' ]_vars

\* A first execution was answered; later two executions wait on a fetch that never
\* completes, the one that started it and one coalesced onto it.
C9_Witness ==
    \E r1, r2, r3 \in Requests :
       /\ req[r1].sent = "ok"
       /\ OnHungFetch(r2) /\ req[r2].initiator
       /\ OnHungFetch(r3) /\ ~req[r3].initiator

\* C10: the two coordinators share no state: a step changes the cached token, the
\* expiry or the in-flight handle of a coordinator only if it is a call on that
\* coordinator or the completion of one of its fetches, and no request is handed
\* a token issued for the other API.
C10_CoordinatorsIndependent ==
    [][ /\ \A c \in Coordinators :
             ( \/ cachedToken'[c] # cachedToken[c]
               \/ tokenExpiresAt'[c] # tokenExpiresAt[c]
               \/ tokenPromise'[c] # tokenPromise[c] )
             => \/ \E r \in Requests : CalledOn(r, c)
                \/ \E f \in fetches : f.coord = c /\ Completed(f)
        /\ \A r \in Requests :
             req'[r].token # Null => req'[r].token.api = ApiOf(req'[r].kind)
        /\ \A c \in Coordinators :
             cachedToken'[c] # Null => cachedToken'[c].api = c
      ]_vars

\* Each coordinator caches its own token while the other one has a fetch pending
\* or has failed one, and each request holds a token of its own API.
C10_Witness ==
    /\ cachedToken["mock"] = Token("mock", 1)
    /\ cachedToken["sfmc"] = Token("sfmc", 1)
    /\ \E r1, r2 \in Requests :
          /\ req[r1].token = Token("mock", 1)
          /\ req[r2].token = Token("sfmc", 1)
    /\ tokenExpiresAt["mock"] # tokenExpiresAt["sfmc"]

----------------------------------------------------------------------------
(* Vocabulary of the claims about the executions *)

\* The token request f failed in this step: it completed and stored no token
FetchFailed(f) == Completed(f) /\ cachedToken'[f.coord] # Token(f.coord, f.id)

\* Execution r was waiting for the token of a request that failed in this step
TokenFailedFor(r) ==
    /\ req[r].pc = "awaitToken"
    /\ \E f \in fetches :
          f.coord = ApiOf(req[r].kind) /\ f.id = req[r].promise /\ FetchFailed(f)

\* Execution r issued a push request in this step
PushIssued(r) == req'[r].calls > req[r].calls

\* an answer of the push endpoint with a status in [200, 300)
Is2xx(out) == out.t = "resp" /\ out.status >= 200 /\ out.status < 300

\* The push call of execution r was answered, or failed, in this step
PushEnded(r) == req[r].pc = "awaitPush" /\ req'[r].answer # Null

\* The push call of execution r failed in this step: an answer with a status
\* outside [200, 300), or no answer
PushFailedFor(r) == PushEnded(r) /\ ~Is2xx(req'[r].answer)

\* The keys of the JSON body that execution r answered with
ResponseKeys(r) == DOMAIN req[r].response

\* C11: within one execution the push request is issued only once that execution
\* holds a token of the push service and its push body has been assembled from the
\* resolved bindings; an execution whose token acquisition fails issues no push
\* request, then or later, and answers with an error.
C11_PushAfterTokenAndBindings ==
    [][ \A r \in Requests :
          /\ PushIssued(r) =>
               /\ req'[r].token.t = "tok"
               /\ req'[r].token.api = "mock"
               /\ activity'[r] # Null
               /\ activity'[r].body # Null
          /\ TokenFailedFor(r) =>
               /\ ~PushIssued(r)
               /\ req'[r].pc = "done"
               /\ req'[r].response.status = "error"
          /\ (req[r].pc = "done" /\ req[r].token = Null) =>
               (req'[r].calls = 0 /\ req'[r].pc = "done")
      ]_vars

\* One execution was failed by its token request and sent nothing; the next one
\* got a token and has its push request out.
C11_Witness ==
    /\ req[1].pc = "done"
    /\ req[1].promise = 1
    /\ req[1].token = Null
    /\ req[1].calls = 0
    /\ req[1].response.status = "error"
    /\ req[2].pc = "awaitPush"
    /\ req[2].token = Token("mock", 2)
    /\ req[2].calls = 1
    /\ activity[2].body.phone = PhoneNumber

\* C12 (as claimed): every failure of an execution (the push answered outside 2xx,
\* the push call failed, the token acquisition failed) is answered with status
\* "error", a message and a details object.
C12_EveryFailureHasDetails ==
    [][ \A r \in Requests :
          (TokenFailedFor(r) \/ PushFailedFor(r)) =>
            /\ req'[r].pc = "done"
            /\ req'[r].response.status = "error"
            /\ {"message", "details"} \subseteq DOMAIN req'[r].response
      ]_vars

\* C12 (amended): every such failure is caught and answered with code 500, status
\* "error" and a message; the answer has a details object with the error's message
\* and status code, except that the single-file server answers a failed token
\* acquisition with status and message only.
C12_FailuresCaughtAndAnswered ==
    [][ \A r \in Requests :
          (TokenFailedFor(r) \/ PushFailedFor(r)) =>
            /\ req'[r].pc = "done"
            /\ req'[r].response.code = 500
            /\ req'[r].response.status = "error"
            /\ "message" \in DOMAIN req'[r].response
            /\ IF deployed = "monolith" /\ TokenFailedFor(r)
               THEN "details" \notin DOMAIN req'[r].response
               ELSE /\ "details" \in DOMAIN req'[r].response
                    /\ DOMAIN req'[r].response.details = {"errorMessage", "statusCode"}
      ]_vars

\* One execution was failed by its token request, the other by a 500 of the push
\* endpoint, and both were answered with an error.
C12_Witness ==
    /\ req[1].pc = "done"
    /\ req[1].token = Null
    /\ req[1].promise = 1
    /\ req[1].response.status = "error"
    /\ req[2].pc = "done"
    /\ req[2].token # Null
    /\ req[2].response.status = "error"
    /\ req[2].response.details.statusCode = Num(500)

\* C13: when the push endpoint answers with a status in [200, 300) the execution
\* answers 200 with status "ok" and the endpoint's body as result, and an execution
\* answers "ok" in no other step.
C13_OkOnlyOn2xx ==
    [][ \A r \in Requests :
          /\ (PushEnded(r) /\ Is2xx(req'[r].answer)) =>
               req'[r].response =
                 [code |-> 200, status |-> "ok", result |-> req'[r].answer.data]
          /\ ( /\ req'[r].response # req[r].response
               /\ req'[r].kind = "execute"
               /\ req'[r].response.status = "ok" )
             => (PushEnded(r) /\ Is2xx(req'[r].answer))
      ]_vars

\* One execution answered "ok" with the body of the push endpoint, the other
\* answered an error for status 300.
C13_Witness ==
    \E r1, r2 \in Requests :
       /\ req[r1].response = [code |-> 200, status |-> "ok",
                              result |-> Str(<<"s", "e", "n", "t">>)]
       /\ req[r2].pc = "done"
       /\ req[r2].response.status = "error"
       /\ req[r2].response.details.statusCode = Num(300)

\* The phone of the push body of execution r, or its message, is empty or null
Unresolved(r) ==
    /\ activity[r] # Null
    /\ activity[r].body # Null
    /\ (~Truthy(activity[r].body.phone) \/ ~Truthy(activity[r].body.message))

\* C14: an execution whose phone binding or message resolves to nothing is
\* rejected with code 400 and issues no push request.
C14_UnresolvedRejected ==
    \A r \in Requests :
       Unresolved(r) =>
         /\ req[r].calls = 0
         /\ req[r].pc = "done"
         /\ req[r].response.code = 400

\* C15: an execution starts at most one token request and issues at most one push
\* request, and once it has answered it does nothing more.
C15_SingleAttempt ==
    [][ \A r \in Requests :
          /\ req'[r].started <= 1
          /\ req'[r].calls <= 1
          /\ req[r].pc = "done" => req'[r] = req[r]
      ]_vars

\* One execution started a token request that failed, the other started its own
\* and its push call failed: each made one attempt.
C15_Witness ==
    /\ \A r \in 1..2 : req[r].pc = "done" /\ req[r].sent = "error" /\ req[r].started = 1
    /\ req[1].calls = 0
    /\ req[2].calls = 1

----------------------------------------------------------------------------
(* Vocabulary of the claims about the push body *)

\* The handler has assembled a push body from the payload of the call
Assembled == call.fn = "pushPayload" /\ call.result \notin {Pending, Thrown}

\* inArguments[0][key] of the payload of the call
InArgOf(key) == getInArgValue(InArgs(call.payload), key)

\* C16: the push body has contactKey equal to the payload's keyValue, message equal
\* to the personalized selectedTemplateMessage when that is non-empty and to the
\* resolved message binding otherwise, customText and selectedTemplate as they are
\* in inArguments, and phone and deFieldValue the resolved bindings.
C16_PushBodyFields ==
    Assembled =>
      LET personalized == personalizeText(InArgOf(K_selectedTemplateMessage), call.payload)
      IN  /\ call.result.contactKey = Get(call.payload, K_keyValue)
          /\ call.result.message =
               IF Truthy(personalized) THEN personalized
               ELSE extractDataBindingValue(InArgOf(K_message), call.payload)
          /\ call.result.customText = InArgOf(K_customText)
          /\ call.result.selectedTemplate = InArgOf(K_selectedTemplate)
          /\ call.result.phone = extractDataBindingValue(InArgOf(K_phone), call.payload)
          /\ call.result.deFieldValue =
               extractDataBindingValue(InArgOf(K_selectedDEField), call.payload)

\* "Hi +3412345678"
HiPhoneNumber == Str(<<"H", "i", " ">> \o PhoneNumber.s)

\* C17: for the payload with Event.E1.Phone = "+3412345678", the phone binding
\* "{{Event.E1.Phone}}", selectedTemplateMessage "Hi %%Phone%%" and Phone also as a
\* top-level key, the message of the push body that the modular server's handler
\* assembles is "Hi +3412345678".
C17_EndToEndMessage ==
    (Assembled /\ deployed = "modular" /\ call.payload = EndToEndActivity) =>
      call.result.message = HiPhoneNumber

----------------------------------------------------------------------------
(* Vocabulary of the claims about personalizeText *)

\* personalizeText was called on a string and has returned
Returned ==
    call.fn = "personalizeText" /\ call.result # Pending /\ call.text.t = "str"

\* The names of the own properties of a value, at any depth
RECURSIVE KeysAnywhere(_)
KeysAnywhere(val) ==
    CASE val.t = "obj" ->
           {val.props[i].k : i \in DOMAIN val.props}
             \cup UNION {KeysAnywhere(val.props[i].v) : i \in DOMAIN val.props}
      [] val.t = "arr" ->
           {<<"0">> : i \in DOMAIN val.items}
             \cup UNION {KeysAnywhere(val.items[i]) : i \in DOMAIN val.items}
      [] OTHER -> {}

\* s holds no percent sign
NoPercent(s) == \A i \in DOMAIN s : s[i] # "%"

\* The first placeholder of s: s is a text without percent sign, then "%%", a name
\* without percent sign, "%%", and the rest; i and j are where the delimiters stand
FirstPlaceholder(s, i, j) ==
    /\ i \in Delims(s)
    /\ j \in Delims(s)
    /\ j >= i + 2
    /\ NoPercent(SubSeq(s, 1, i - 1))
    /\ NoPercent(SubSeq(s, i + 2, j - 1))

\* the field name between the delimiters at i and j, and the part of it behind the
\* last dot
NameAt(s, i, j) == Trim(SubSeq(s, i + 2, j - 1))
LastPart(name) == Split(name)[Len(Split(name))]

\* The result keeps s up to and with the placeholder that ends at j
KeepsUpTo(s, j) == StartsWith(call.result.s, SubSeq(s, 1, j + 1))

\* C18: whether or not the payload has an Event key, a placeholder %%field%% whose
\* field name the fallback deep search finds in the payload is replaced by the
\* value that search finds.
C18_ReplacedByFallbackSearch ==
    Returned =>
      \A i, j \in DOMAIN call.text.s :
         ( /\ FirstPlaceholder(call.text.s, i, j)
           /\ NameAt(call.text.s, i, j) \in KeysAnywhere(call.data)
           /\ searchInObject(call.data, NameAt(call.text.s, i, j)) # Null )
         => StartsWith(call.result.s,
                       SubSeq(call.text.s, 1, i - 1)
                         \o ToStr(searchInObject(call.data, NameAt(call.text.s, i, j))))

\* The names between any two delimiters of s
CandidateNames(s) ==
    UNION {{NameAt(s, i, j) : j \in {k \in Delims(s) : k >= i + 2}} : i \in Delims(s)}

\* C19: a placeholder %%X%% whose name is no key of the payload stays in the
\* output as it is, and when no name between delimiters is a key of the payload
\* the output is the template (so that personalizing the output changes nothing).
C19_UnmatchedStays ==
    Returned =>
      /\ \A i, j \in DOMAIN call.text.s :
            ( /\ FirstPlaceholder(call.text.s, i, j)
              /\ LastPart(NameAt(call.text.s, i, j)) \notin KeysAnywhere(call.data) )
            => KeepsUpTo(call.text.s, j)
      /\ (\A name \in CandidateNames(call.text.s) :
             LastPart(name) \notin KeysAnywhere(call.data))
         => /\ call.result = call.text
            /\ personalizeText(call.result, call.data) = call.result

\* C20: a placeholder %%name%% is replaced by the value of a payload
\* key that differs from it only in letter case.
C20_CaseInsensitive ==
    Returned =>
      \A i, j \in DOMAIN call.text.s :
         ( /\ FirstPlaceholder(call.text.s, i, j)
           /\ Get(call.data, Event) = Undefined
           /\ \E k \in KeysAnywhere(call.data) :
                 /\ Lower(k) = Lower(NameAt(call.text.s, i, j))
                 /\ searchInObject(call.data, k) # Null )
         => ~KeepsUpTo(call.text.s, j)

----------------------------------------------------------------------------
(* Vocabulary of the claims about extractDataBindingValue *)

\* extractDataBindingValue has returned
Resolved ==
    call.fn = "extractDataBindingValue" /\ call.result # Pending

\* val has the key k: a property of an object, an index of an array
HasKey(val, k) ==
    \/ val.t = "obj" /\ \E i \in DOMAIN val.props : val.props[i].k = k
    \/ val.t = "arr" /\ k = K_0 /\ val.items # <<>>

\* the value val holds under its key k
KeyValue(val, k) ==
    IF val.t = "obj"
    THEN val.props[CHOOSE i \in DOMAIN val.props : val.props[i].k = k].v
    ELSE val.items[1]

\* the path parts[i..] exists in val, key by key
RECURSIVE PathExists(_, _, _)
PathExists(val, parts, i) ==
    \/ i > Len(parts)
    \/ /\ HasKey(val, parts[i])
       /\ PathExists(KeyValue(val, parts[i]), parts, i + 1)

\* the value at the end of the path parts[i..], which exists in val
RECURSIVE ValueAt(_, _, _)
ValueAt(val, parts, i) ==
    IF i > Len(parts) THEN val ELSE ValueAt(KeyValue(val, parts[i]), parts, i + 1)

\* s is empty or holds blanks only
Blank(s) == \A i \in DOMAIN s : s[i] = " "

\* s starts with "{{" and ends with "}}"
Braced(s) ==
    /\ Len(s) >= 2
    /\ s[1] = "{" /\ s[2] = "{"
    /\ s[Len(s) - 1] = "}" /\ s[Len(s)] = "}"

\* the segments of the path of a binding "{{a.b.c}}": <<a, b, c>>
PathOf(binding) ==
    IF binding.t = "str" /\ Braced(binding.s)
    THEN Split(SubSeq(binding.s, 3, Len(binding.s) - 2))
    ELSE <<>>

\* the binding of the call is an {{Event...}} binding of two or more segments
EventBinding ==
    Len(PathOf(call.binding)) >= 2 /\ PathOf(call.binding)[1] = Event

\* C21: for a binding {{Event.K.F}} of two or more segments and a payload in which
\* the path Event.K.F exists, the resolver returns the value stored at that path.
C21_ExistingPathResolved ==
    (Resolved /\ EventBinding /\ PathExists(call.data, PathOf(call.binding), 1))
      => call.result = ValueAt(call.data, PathOf(call.binding), 1)

\* {{Event.E1.x.n}} was resolved to the value three levels below Event.
C21_Witness ==
    /\ Resolved
    /\ call.binding = PathBinding(<<Event, E1, K_x, K_n>>)
    /\ PathExists(call.data, <<Event, E1, K_x, K_n>>, 1)
    /\ call.result = UpperV

\* C22: when the payload has an Event key and a segment of the path of an
\* {{Event...}} binding is missing under it, the resolver returns null, whether or
\* not a key named as the last segment exists elsewhere in the payload.
C22_MissingSegmentIsNull ==
    ( /\ Resolved
      /\ EventBinding
      /\ HasKey(call.data, Event)
      /\ ~PathExists(call.data, PathOf(call.binding), 1) )
    => call.result = Null

\* the paths of keys that exist in val
RECURSIVE KeyPaths(_)
KeyPaths(val) ==
    LET keys == CASE val.t = "obj" -> {val.props[i].k : i \in DOMAIN val.props}
                  [] val.t = "arr" /\ val.items # <<>> -> {K_0}
                  [] OTHER -> {}
    IN  UNION {{<<k>>} \cup {<<k>> \o p : p \in KeyPaths(KeyValue(val, k))} : k \in keys}

\* where the key k stands among the keys of val
KeyIndex(val, k) ==
    IF val.t = "obj" THEN CHOOSE i \in DOMAIN val.props : val.props[i].k = k ELSE 1

\* The search meets the key at the end of p before the one at the end of q: a key
\* of an object is met before the keys inside its values, and the values are
\* entered in the order of the keys
MetBefore(val, p, q) ==
    LET same(i) == i <= Len(p) /\ i <= Len(q) /\ p[i] = q[i]
        d == Min({i \in 1..(Len(p) + 1) : ~same(i)})
    IN  \/ d > Len(p)
        \/ /\ d <= Len(q)
           /\ \/ d = Len(p)
              \/ /\ d < Len(q)
                 /\ KeyIndex(ValueAt(val, SubSeq(p, 1, d - 1), 1), p[d])
                      < KeyIndex(ValueAt(val, SubSeq(q, 1, d - 1), 1), q[d])

\* the paths of the payload of the call that end in a key named field
MatchingPaths(field) ==
    {p \in KeyPaths(call.data) : p[Len(p)] = field}

\* C23: when the payload has no Event key, the resolver searches the whole payload
\* depth first for a key named as the last segment of an {{Event...}} binding and
\* returns the value of the first such key the search meets, or null when the
\* payload has no such key.
C23_FirstMatchOfDeepSearch ==
    (Resolved /\ EventBinding /\ ~HasKey(call.data, Event))
    => LET parts == PathOf(call.binding)
           matching == MatchingPaths(parts[Len(parts)])
       IN  IF matching = {} THEN call.result = Null
           ELSE \E p \in matching :
                   /\ \A q \in matching \ {p} : MetBefore(call.data, p, q)
                   /\ call.result = ValueAt(call.data, p, 1)

\* C24: a string that is not blank and does not both start with "{{" and end with
\* "}}" is returned as it is, blanks around it included, whatever the payload.
C24_PlainTextReturned ==
    (Resolved /\ call.binding.t = "str" /\ ~Blank(call.binding.s) /\ ~Braced(call.binding.s))
      => call.result = call.binding

\* " 600 " was resolved against a payload with event data and came back with its
\* blanks.
C24_Witness ==
    /\ Resolved
    /\ call.binding = Str(<<" ", "6", "0", "0", " ">>)
    /\ HasKey(call.data, Event)
    /\ call.result = Str(<<" ", "6", "0", "0", " ">>)

\* C25: an empty or blank string, an absent binding and a binding that is not a
\* string resolve to null, whatever the payload.
C25_NothingResolvesToNull ==
    (Resolved /\ (call.binding.t # "str" \/ Blank(call.binding.s)))
      => call.result = Null

\* The number 5 was passed as the binding and null came back.
C25_Witness ==
    /\ Resolved
    /\ call.binding = Num(5)
    /\ call.result = Null

----------------------------------------------------------------------------
(* Vocabulary of the claims about what executions share *)

\* The push body a server that has executed nothing makes of the payload p
\* (Null: the handler throws before it has one)
FreshBody(p) == IF SyncThrows(p) THEN Null ELSE PushPayload(deployed, p)

----------------------------------------------------------------------------
(* Vocabulary of the claims about the template catalog *)

\* the rows of the body of the call, when it has an array of rows
RowsOf(data) ==
    IF data.t = "obj" /\ HasKey(data, <<"i", "t", "e", "m", "s">>) /\ KeyValue(data, <<"i", "t", "e", "m", "s">>).t = "arr"
    THEN KeyValue(data, <<"i", "t", "e", "m", "s">>).items
    ELSE <<>>

\* the field named k of the part named part of a row, Undefined when the row has
\* no such field
FieldOf(row, part, k) ==
    IF HasKey(KeyValue(row, part), k) THEN KeyValue(KeyValue(row, part), k) ELSE Undefined

\* C28: the catalog is an empty collection, not an error, when the answer has no
\* rows or no items field; otherwise it has one {id, name, message} entry per row,
\* in the order of the rows, with the row's templateid, templatename and
\* templatemessage.
C28_OneEntryPerRow ==
    (call.fn = "getTemplatesFromDE" /\ call.result # Pending) =>
      LET rows == RowsOf(call.data)
      IN  /\ call.result.t = "arr"
          /\ Len(call.result.items) = Len(rows)
          /\ \A i \in DOMAIN rows :
                /\ call.result.items[i].t = "obj"
                /\ [j \in DOMAIN call.result.items[i].props |-> call.result.items[i].props[j].k]
                     = <<<<"i", "d">>, <<"n", "a", "m", "e">>, K_message>>
                /\ call.result.items[i].props[1].v = FieldOf(rows[i], <<"k", "e", "y", "s">>, <<"t", "e", "m", "p", "l", "a", "t", "e", "i", "d">>)
                /\ call.result.items[i].props[2].v = FieldOf(rows[i], <<"v", "a", "l", "u", "e", "s">>, <<"t", "e", "m", "p", "l", "a", "t", "e", "n", "a", "m", "e">>)
                /\ call.result.items[i].props[3].v = FieldOf(rows[i], <<"v", "a", "l", "u", "e", "s">>, <<"t", "e", "m", "p", "l", "a", "t", "e", "m", "e", "s", "s", "a", "g", "e">>)

\* A rowset of three rows, the first and the last different, was mapped to three
\* entries in that order.
C28_Witness ==
    /\ call.fn = "getTemplatesFromDE"
    /\ call.result # Pending
    /\ Len(RowsOf(call.data)) = 3
    /\ RowsOf(call.data)[1] = Row(Str(<<"1">>), Str(<<"a">>), HiPhone)
    /\ RowsOf(call.data)[3] = Row(Str(<<"2">>), Str(<<"b">>), Str(<<>>))
    /\ call.result.items[1].props[3].v = HiPhone
    /\ call.result.items[3].props[1].v = Str(<<"2">>)

----------------------------------------------------------------------------
\* C29: in the server of index.js, when an /execute request arrives while no
\* usable token is cached and a token request is pending, no second token request
\* is started.
C29_InlineCoalesced ==
    [][ \A r \in Requests :
          ( /\ Called(r)
            /\ ~CacheFresh("mock")
            /\ \E f \in fetches : f.coord = "mock" )
          => fetches' = fetches
      ]_vars

\* C30: at each coordinator, in every reachable state, the in-flight handle is
\* non-null if and only if a token fetch that the coordinator started has not yet
\* completed.
C30_HandleIffFetchPending ==
    \A c \in Coordinators :
       tokenPromise[c] # Null <=> \E f \in fetches : f.coord = c

----------------------------------------------------------------------------
\* C31: when a token fetch succeeds, the cache holds the fetched token, the expiry
\* is the clock at that moment plus the answer's expires_in seconds, the in-flight
\* handle is null and every caller that waited on the fetch receives that token;
\* and the cached token and its expiry change in no other step.
C31_SuccessStoresAndHandsOver ==
    [][ \A c \in Coordinators :
          /\ \A f \in fetches :
               ( /\ f.coord = c
                 /\ Completed(f)
                 /\ cachedToken'[c] = Token(c, f.id) )
               => /\ storedExpiresIn'[c].t = "num" =>
                       tokenExpiresAt'[c] = Num(now + storedExpiresIn'[c].v * 1000)
                  /\ tokenPromise'[c] = Null
                  /\ \A r \in AwaitingAt(c) :
                       req[r].promise = f.id =>
                         /\ req'[r].token = Token(c, f.id)
                         /\ req'[r].source = "fetch"
                         /\ req'[r].pc # "awaitToken"
          /\ (cachedToken'[c] # cachedToken[c] \/ tokenExpiresAt'[c] # tokenExpiresAt[c])
               => \E f \in fetches :
                     /\ f.coord = c
                     /\ Completed(f)
                     /\ cachedToken'[c] = Token(c, f.id)
      ]_vars

\* The second mock fetch succeeded after the clock had advanced: its token replaced
\* the first one, the expiry is that clock plus 61 s, the handle is null and the
\* caller that waited holds the new token.
C31_Witness ==
    /\ cachedToken["mock"] = Token("mock", 2)
    /\ now > 0
    /\ tokenExpiresAt["mock"] = Num(now + 61000)
    /\ tokenPromise["mock"] = Null
    /\ lastEvent["mock"] = "stored"
    /\ \E r \in Requests : req[r].token = Token("mock", 2) /\ req[r].source = "fetch"

\* C32: a token fetch that fails leaves the cached token and its expiry as they
\* were, at its own coordinator and at the other one; of the coordinator's state
\* it changes the in-flight handle only.
C32_FailureKeepsTheCache ==
    [][ \A f \in fetches :
          (Completed(f) /\ cachedToken'[f.coord] # Token(f.coord, f.id))
          => /\ cachedToken' = cachedToken
             /\ tokenExpiresAt' = tokenExpiresAt
             /\ \A c \in Coordinators \ {f.coord} : tokenPromise'[c] = tokenPromise[c]
             /\ tokenPromise[f.coord] # Null
             /\ tokenPromise'[f.coord] = Null
      ]_vars

\* A token stored with expires_in = 60 was cached, the fetch the next caller
\* started has failed, and the cache still holds that token and its expiry.
C32_Witness ==
    \E c \in Coordinators : \E r \in Requests :
       /\ cachedToken[c] = Token(c, 1)
       /\ storedExpiresIn[c] = Num(60)
       /\ tokenExpiresAt[c].t = "num"
       /\ lastEvent[c] = "failed"
       /\ ApiOf(req[r].kind) = c
       /\ req[r].promise = 2
       /\ req[r].sent = "error"

\* C33: provided every request to a token endpoint completes in the end, every
\* acquireToken call settles: each caller that waits, the one that started the
\* fetch and the ones coalesced onto it, is handed a token or the failure.
C33_EveryCallSettles ==
    \A r \in Requests :
       (req[r].pc = "awaitToken")
         ~> (req[r].pc # "awaitToken" /\ (req[r].token # Null \/ req[r].sent = "error"))

C33_Witness ==
    \E r1, r2, r3 \in Requests :
       /\ r1 # r2
       /\ req[r1].promise = req[r2].promise
       /\ ApiOf(req[r1].kind) = ApiOf(req[r2].kind)
       /\ req[r1].initiator /\ ~req[r2].initiator
       /\ req[r1].token # Null /\ req[r2].token = req[r1].token
       /\ req[r2].source = "fetch"
       /\ req[r3].pc = "done" /\ req[r3].token = Null /\ req[r3].sent = "error"

\* An execution that has been handed to the handler and has not answered waits on
\* a token request that is still out, or on its push call
WaitsOnItsCalls(r) ==
    \/ /\ req[r].pc = "awaitToken"
       /\ \E f \in fetches : f.coord = "mock" /\ f.id = req[r].promise
    \/ req[r].pc = "awaitPush"

\* C34: every execution that passed the verification of its JWT answers exactly
\* once, with 200 and status "ok" or with 500 and status "error": never twice,
\* and it is without an answer only while its token request or its push call is
\* still out.
C34_ExactlyOneResponse ==
    \A r \in Requests :
       /\ req[r].sends <= 1
       /\ req[r].sends = 1 =>
            /\ req[r].pc = "done"
            /\ \/ req[r].sent = "ok" /\ req[r].response.code = 200
                                     /\ req[r].response.status = "ok"
               \/ req[r].sent = "error" /\ req[r].response.code = 500
                                        /\ req[r].response.status = "error"
       /\ (req[r].pc # "new" /\ req[r].sends = 0) => WaitsOnItsCalls(r)

\* One execution answered ok after its push, the other answered the error of a
\* payload that made the handler throw before any call: each answered once.
C34_Witness ==
    \E r1, r2 \in Requests :
       /\ req[r1].sends = 1 /\ req[r1].response.code = 200 /\ req[r1].calls = 1
       /\ req[r2].sends = 1 /\ req[r2].response.code = 500 /\ req[r2].calls = 0
       /\ req[r2].started = 0

\* C35: a {{...}} binding whose path does not start at "Event", or has one segment
\* only, resolves to null whatever the payload; so do the
\* {{Contact.Attribute.DataExtension.<field>}} bindings that the form saves when it
\* finds no event definition key.
C35_OnlyEventPathsResolve ==
    Resolved =>
      /\ ( /\ call.binding.t = "str"
           /\ Braced(call.binding.s)
           /\ (Len(PathOf(call.binding)) < 2 \/ PathOf(call.binding)[1] # Event) )
         => call.result = Null
      /\ (\E field \in SegmentNames : call.binding = FallbackBinding(field))
         => call.result = Null

\* The form's fallback binding of the field n was resolved to null against a
\* payload that has no Event key and holds n at its top level.
C35_Witness ==
    /\ Resolved
    /\ call.binding = FallbackBinding(K_n)
    /\ ~HasKey(call.data, Event)
    /\ HasKey(call.data, K_n)
    /\ call.result = Null

\* The fallback search of the call is the one the resolver ran: the binding is an
\* {{Event...}} binding and the payload holds nothing under Event
FallbackSearch ==
    Resolved /\ EventBinding /\ ~Truthy(Get(call.data, Event))

\* The search can return the key at the end of the matching path p: no object
\* above the one that holds the key has a key of that name itself, and the key
\* holds a value other than null unless it is a key of the payload itself
Returnable(p) ==
    /\ \A m \in 0..(Len(p) - 2) :
          ~HasKey(ValueAt(call.data, SubSeq(p, 1, m), 1), p[Len(p)])
    /\ (Len(p) = 1 \/ ValueAt(call.data, p, 1) # Null)

\* C36: in the fallback search a key of an object with the searched name is taken
\* before the keys of that name nested in its values, and a nested key of that name
\* that holds null is passed over, the search going on with the values behind it:
\* for a searched name that only keys of the payload carry, the result is the first
\* key met that can be returned, or null when there is none.
C36_DirectFirstNullSkipped ==
    FallbackSearch =>
      LET parts == PathOf(call.binding)
          field == parts[Len(parts)]
          returnable == {p \in MatchingPaths(field) : Returnable(p)}
      IN  /\ HasKey(call.data, field) => call.result = KeyValue(call.data, field)
          /\ field \notin {toString, length} =>
               IF returnable = {} THEN call.result = Null
               ELSE \E p \in returnable :
                       /\ \A q \in returnable \ {p} : MetBefore(call.data, p, q)
                       /\ call.result = ValueAt(call.data, p, 1)

\* {{Event.E1.n}} was searched in {x: {n: null, E1: {n: "V"}}, E1: {n: "v"}}: the
\* null under x was passed over, the key below it was never looked at, and the
\* search went on to E1.
C36_Witness ==
    /\ FallbackSearch
    /\ call.binding = PathBinding(<<Event, E1, K_n>>)
    /\ call.data = Obj(<<Prop(K_x, Obj(<<Prop(K_n, Null),
                                         Prop(E1, Obj(<<Prop(K_n, UpperV)>>))>>)),
                         Prop(E1, Obj(<<Prop(K_n, LowerV)>>))>>)
    /\ call.result = LowerV

----------------------------------------------------------------------------
(* POST /execute from the body parser on: verifyJWT and, when it calls next, the *)
(* route handler                                                                 *)

K_token == <<"t", "o", "k", "e", "n">>

\* A JWT as a string: what it was signed with, whether its exp has passed, and the
\* payload it carries
Jwt(key, expired, payload) ==
    [t |-> "str", s |-> <<"e", "y", "J">>,
     jwt |-> [key |-> key, expired |-> expired, payload |-> payload]]

\* jwt.verify(token, secret, callback): what the callback is called with
jwtVerify(token, secret) ==
    IF /\ token.t = "str"
       /\ "jwt" \in DOMAIN token
       /\ token.jwt.key = secret
       /\ ~token.jwt.expired
    THEN [err |-> Null, decoded |-> token.jwt.payload]
    ELSE [err |-> [message |-> "invalid token"], decoded |-> Undefined]

\* Variant: the payload of the token is read without verifying the signature or
\* the expiry (jwt.decode).
verifyJWT_DecodeOnly(body, secret) ==
    LET token == IF body.t = "str" /\ Len(body.s) > 0 THEN body
                 ELSE IF Truthy(body) /\ Truthy(Get(body, K_token))
                      THEN Get(body, K_token)
                      ELSE Undefined
    IN  IF ~Truthy(token)
        THEN [next |-> FALSE, decoded |-> Undefined,
              response |-> [code |-> 401, error |-> "token not found"]]
        ELSE IF ~Truthy(secret)
        THEN [next |-> FALSE, decoded |-> Undefined,
              response |-> [code |-> 500, error |-> "secret not configured"]]
        ELSE IF token.t # "str" \/ "jwt" \notin DOMAIN token
        THEN [next |-> FALSE, decoded |-> Undefined,
              response |-> [code |-> 401, error |-> "invalid or expired token"]]
        ELSE [next |-> TRUE, decoded |-> token.jwt.payload, response |-> Null]

\* verifyJWT(req, res, next), for the body the parsers left in req.body and the
\* JWT_SECRET of the environment: whether it calls next, the req.activityPayload
\* it sets, and what it answers otherwise
verifyJWT(body, secret) ==
    LET token == IF body.t = "str" /\ Len(body.s) > 0 THEN body
                 ELSE IF Truthy(body) /\ Truthy(Get(body, K_token))
                      THEN Get(body, K_token)
                      ELSE Undefined
    IN  IF ~Truthy(token)
        THEN [next |-> FALSE, decoded |-> Undefined,
              response |-> [code |-> 401, error |-> "token not found"]]
        ELSE IF ~Truthy(secret)
        THEN [next |-> FALSE, decoded |-> Undefined,
              response |-> [code |-> 500, error |-> "secret not configured"]]
        ELSE IF jwtVerify(token, secret).err # Null
        THEN [next |-> FALSE, decoded |-> Undefined,
              response |-> [code |-> 401, error |-> "invalid or expired token"]]
        ELSE [next |-> TRUE, decoded |-> jwtVerify(token, secret).decoded,
              response |-> Null]

\* the secret Journey Builder signs with, and another one
SigningKey == Str(<<"k">>)
OtherKey == Str(<<"w">>)

\* JWT_SECRET: not set, set to the empty string, set to the signing key
VerifySecrets == {Undefined, Str(<<>>), SigningKey}

\* req.body: no body, an empty object, an empty string, a string that is no JWT,
\* tokens (good, expired, signed with another key) as the body, and objects with a
\* token property that holds a good token, an empty string, a number or null
VerifyBodies ==
    {Undefined, Obj(<<>>), Str(<<>>), Str(<<"x">>)}
      \cup {Jwt(SigningKey, FALSE, p) : p \in ExecActivities}
      \cup {Jwt(SigningKey, TRUE, EndToEndActivity), Jwt(OtherKey, FALSE, EndToEndActivity)}
      \cup {Obj(<<Prop(K_token, v)>>) :
              v \in {Jwt(SigningKey, FALSE, EndToEndActivity),
                     Jwt(OtherKey, FALSE, EndToEndActivity), Str(<<>>), Num(5), Null}}

VerifyInit ==
    /\ Idle
    /\ deployed \in Builds
    /\ \E secret \in VerifySecrets :
          call = [fn |-> "verifyJWT", r |-> 0, body |-> Undefined, secret |-> secret,
                  next |-> FALSE, decoded |-> Undefined]

\* POST /execute arrives with some body: verifyJWT runs, and answers unless it
\* calls next.
Verifies(r, body) ==
    LET v == verifyJWT(body, call.secret)
    IN  /\ call.fn = "verifyJWT"
        /\ Arrives(r)
        /\ call.r # 0 => req[call.r].pc # "new"
        /\ call' = [call EXCEPT !.r = r, !.body = body, !.next = v.next,
                                !.decoded = v.decoded]
        /\ req' = IF v.next THEN req
                  ELSE [req EXCEPT ![r] =
                          Responded([@ EXCEPT !.kind = "execute"], "error", v.response)]
        /\ UNCHANGED <<now, credsPresent, coordVars, deployed, activity>>

\* next(): the route handler runs with req.activityPayload.
Handles ==
    /\ call.fn = "verifyJWT"
    /\ call.r # 0
    /\ call.next
    /\ ExecuteWith(call.r, call.decoded)

VerifyNext ==
    \/ \E r \in Executions : \E body \in VerifyBodies : Verifies(r, body)
    \/ Handles
    \/ FetchResponds
    \/ PushAnswered

VerifySpec == VerifyInit /\ [][VerifyNext]_vars

\* verifyJWT has run for the request call.r
Verified == call.fn = "verifyJWT" /\ call.r # 0

\* the token the body of the call presents: the body itself when it is a string
\* that is not empty, else its token property
PresentedToken ==
    IF call.body.t = "str" THEN (IF call.body.s # <<>> THEN call.body ELSE Null)
    ELSE IF call.body.t = "obj" /\ HasKey(call.body, K_token)
         THEN KeyValue(call.body, K_token)
         ELSE Null

\* the body presents a token
TokenPresent == PresentedToken \notin {Null, Str(<<>>)}

\* the presented token is a JWT signed with the configured secret and not expired
VerificationSucceeds ==
    /\ "jwt" \in DOMAIN PresentedToken
    /\ PresentedToken.jwt.key = call.secret
    /\ ~PresentedToken.jwt.expired

\* the route handler has run for request r
HandlerRan(r) == activity[r] # Null \/ req[r].started > 0 \/ req[r].calls > 0

\* C37: verifyJWT calls next, with req.activityPayload the decoded payload, only
\* when the body presents a token, JWT_SECRET is configured and the verification
\* succeeds; otherwise it answers exactly once, 401 for a missing or invalid token
\* and 500 for a missing secret, and the handler never runs, so no push is sent.
C37_HandlerOnlyBehindVerification ==
    Verified =>
      /\ call.next <=> (TokenPresent /\ Truthy(call.secret) /\ VerificationSucceeds)
      /\ call.next => call.decoded = PresentedToken.jwt.payload
      /\ HandlerRan(call.r) =>
           (call.next /\ activity[call.r].payload = call.decoded)
      /\ ~call.next =>
           /\ req[call.r].sends = 1
           /\ req[call.r].pc = "done"
           /\ req[call.r].calls = 0
           /\ req[call.r].response.code =
                IF ~TokenPresent THEN 401
                ELSE IF ~Truthy(call.secret) THEN 500
                ELSE 401

\* A request with an expired token was answered 401 after an earlier request with
\* a good token had been let through and had sent its push.
C37_Witness ==
    /\ Verified
    /\ call.r = 2
    /\ call.body = Jwt(SigningKey, TRUE, EndToEndActivity)
    /\ req[2].response.code = 401
    /\ req[2].calls = 0
    /\ req[1].calls = 1
    /\ activity[1] # Null

----------------------------------------------------------------------------
(* The configuration form (ui.js): the handlers of the Postmonger events that    *)
(* Journey Builder sends, in any order, and the request of the template catalog  *)

K_arguments == <<"a", "r", "g", "u", "m", "e", "n", "t", "s">>
K_execute == <<"e", "x", "e", "c", "u", "t", "e">>
K_metaData == <<"m", "e", "t", "a", "D", "a", "t", "a">>
K_isConfigured == <<"i", "s", "C", "o", "n", "f", "i", "g", "u", "r", "e", "d">>
K_from == <<"f", "r", "o", "m">>
K_schema == <<"s", "c", "h", "e", "m", "a">>
K_key == <<"k", "e", "y">>
K_name == <<"n", "a", "m", "e">>

\* the JavaScript value true
True == [t |-> "bool", v |-> TRUE]

\* requiredFields: the fields of the entry source the activity always binds
MobilePhone == <<"M", "o", "b", "i", "l", "e", "P", "h", "o", "n", "e">>
SMSMessage == <<"S", "M", "S", "M", "e", "s", "s", "a", "g", "e">>
SMSFrom == <<"S", "M", "S", "F", "r", "o", "m">>

\* o[k] = v on an object
Set(o, k, v) ==
    IF \E i \in DOMAIN o.props : o.props[i].k = k
    THEN Obj([i \in DOMAIN o.props |->
                IF o.props[i].k = k THEN Prop(k, v) ELSE o.props[i]])
    ELSE Obj(Append(o.props, Prop(k, v)))

\* o.a.b.c = v, every object on the way being there
RECURSIVE SetPath(_, _, _)
SetPath(o, path, v) ==
    IF Len(path) = 1 THEN Set(o, path[1], v)
    ELSE Set(o, path[1], SetPath(Get(o, path[1]), Tail(path), v))

K_selectedTemplateId == <<"s", "e", "l", "e", "c", "t", "e", "d", "T", "e", "m", "p", "l", "a", "t", "e", "I", "d">>

\* most events Journey Builder sends to the form
MaxEvents == 3

\* what the form has done: the events it was sent, the events it triggered, the
\* request of the catalog and its end, the loading of the saved data
Did(ev, id, arg) == [ev |-> ev, id |-> id, arg |-> arg]

\* the body of initActivity after `if (data) payload = data`: the path
\* arguments.execute.inArguments is made to exist
WithArguments(payload) ==
    LET p1 == IF ~Truthy(Get(payload, K_arguments))
              THEN Set(payload, K_arguments, Obj(<<>>)) ELSE payload
        p2 == IF ~Truthy(Get(Get(p1, K_arguments), K_execute))
              THEN SetPath(p1, <<K_arguments, K_execute>>, Obj(<<>>)) ELSE p1
    IN  IF ~Truthy(Get(Get(Get(p2, K_arguments), K_execute), K_inArguments))
        THEN SetPath(p2, <<K_arguments, K_execute, K_inArguments>>, Arr(<<Obj(<<>>)>>))
        ELSE p2

\* Variant: without an event definition key the bindings of the required fields
\* are left out.
RequiredBindings_OnlyWithKey(schemaFields) ==
    LET eventDefinitionKey ==
          IF Len(schemaFields.items) > 0
                /\ Len(Split(Get(schemaFields.items[1], K_key).s)) >= 2
          THEN Split(Get(schemaFields.items[1], K_key).s)[2]
          ELSE <<>>
        binding(field) == PathBinding(<<Event, eventDefinitionKey, field>>)
    IN  IF eventDefinitionKey # <<>>
        THEN <<Prop(K_phone, binding(MobilePhone)),
               Prop(K_message, binding(SMSMessage)),
               Prop(K_from, binding(SMSFrom))>>
        ELSE <<>>

\* inArgs.phone, inArgs.message and inArgs.from as saveFormDataToPayload writes
\* them: the event definition key is the second segment of the key of the first
\* field of the schema, or "" when there is none, and without it the bindings
\* start at Contact
RequiredBindings(schemaFields) ==
    LET eventDefinitionKey ==
          IF Len(schemaFields.items) > 0
                /\ Len(Split(Get(schemaFields.items[1], K_key).s)) >= 2
          THEN Split(Get(schemaFields.items[1], K_key).s)[2]
          ELSE <<>>
        binding(field) ==
          IF eventDefinitionKey # <<>>
          THEN PathBinding(<<Event, eventDefinitionKey, field>>)
          ELSE FallbackBinding(field)
    IN  <<Prop(K_phone, binding(MobilePhone)),
          Prop(K_message, binding(SMSMessage)),
          Prop(K_from, binding(SMSFrom))>>

\* saveFormDataToPayload(): the payload it leaves, or Thrown, for the values form
\* of the fields of the form. It throws on a first schema field without a string
\* key and on a payload without arguments.execute, in both cases before it has
\* changed the payload.
saveFormDataToPayload(payload, schemaFields, form) ==
    LET inArgs == Obj(<<Prop(K_customText, form.customText),
                        Prop(K_selectedTemplate, form.selectedTemplate),
                        Prop(K_selectedDEField, form.selectedDEField),
                        Prop(K_selectedTemplateId, form.selectedTemplateId)>>
                      \o (IF Truthy(form.selectedTemplateId)
                          THEN <<Prop(K_selectedTemplateMessage, form.message)>>
                          ELSE <<>>)
                      \o RequiredBindings(schemaFields))
        saved == SetPath(payload, <<K_arguments, K_execute, K_inArguments>>,
                         Arr(<<inArgs>>))
        marked == IF ~Truthy(Get(saved, K_metaData))
                  THEN Set(saved, K_metaData, Obj(<<>>)) ELSE saved
    IN  IF Len(schemaFields.items) > 0 /\ Get(schemaFields.items[1], K_key).t # "str"
        THEN Thrown
        ELSE IF ~Truthy(Get(payload, K_arguments))
                  \/ ~Truthy(Get(Get(payload, K_arguments), K_execute))
        THEN Thrown
        ELSE SetPath(marked, <<K_metaData, K_isConfigured>>, True)

\* loadFormData(): whether it throws, which it does on a first inArguments entry
\* that is null
loadFormDataThrows(payload) ==
    /\ Truthy(Get(payload, K_arguments))
    /\ Truthy(Get(Get(payload, K_arguments), K_execute))
    /\ Len(Get(Get(Get(payload, K_arguments), K_execute), K_inArguments).items) > 0
    /\ Get(Get(Get(payload, K_arguments), K_execute), K_inArguments).items[1]
          \in {Null, Undefined}

\* the JavaScript value false
False == [t |-> "bool", v |-> FALSE]

\* data of initActivity: nothing, the payload of an activity that was never
\* configured, payloads whose inArguments is empty or holds null
InitData ==
    { Undefined,
      Obj(<<Prop(K_arguments, Obj(<<Prop(K_execute,
              Obj(<<Prop(K_inArguments, Arr(<<Obj(<<Prop(K_customText, LowerV)>>)>>))>>))>>)),
            Prop(K_metaData, Obj(<<Prop(K_isConfigured, False)>>))>>),
      Obj(<<Prop(K_arguments, Obj(<<Prop(K_execute,
              Obj(<<Prop(K_inArguments, Arr(<<>>))>>))>>))>>),
      Obj(<<Prop(K_arguments, Obj(<<Prop(K_execute,
              Obj(<<Prop(K_inArguments, Arr(<<Null>>))>>))>>))>>) }

\* a field of the schema of the entry source
SchemaField(key) == Obj(<<Prop(K_key, key), Prop(K_name, LowerV)>>)

\* data of requestedSchema: no schema, an empty schema, a schema whose first key
\* is Event.E1.n, one whose first key has one segment, one whose first field has
\* no key, and one that holds null
SchemaData ==
    { Obj(<<>>),
      Obj(<<Prop(K_schema, Arr(<<>>))>>),
      Obj(<<Prop(K_schema, Arr(<<SchemaField(Str(Join(<<Event, E1, K_n>>)))>>))>>),
      Obj(<<Prop(K_schema, Arr(<<SchemaField(Str(K_n))>>))>>),
      Obj(<<Prop(K_schema, Arr(<<Obj(<<Prop(K_name, LowerV)>>)>>))>>),
      Obj(<<Prop(K_schema, Arr(<<Null>>))>>) }

\* the values of the fields of the form: no template selected, a template
\* selected
UiForms ==
    { [customText |-> Str(<<"c">>), selectedTemplate |-> Str(<<"t">>),
       selectedDEField |-> Str(<<>>), selectedTemplateId |-> id, message |-> HiPhone]
      : id \in {Str(<<>>), Str(<<"1">>)} }

UiInit ==
    /\ Idle
    /\ deployed = "modular"
    /\ call = [fn |-> "ui", payload |-> Obj(<<>>), schemaFields |-> Arr(<<>>),
               pending |-> {}, events |-> 0,
               log |-> <<Did("ready", 0, Null)>>]

\* The form is sent its next event.
Receives == call.fn = "ui" /\ call.events < MaxEvents

\* connection.on("initActivity")
InitActivity(data) ==
    /\ Receives
    /\ call' = [call EXCEPT
                  !.events = @ + 1,
                  !.payload = WithArguments(IF Truthy(data) THEN data ELSE @),
                  !.log = @ \o <<Did("initActivity", call.events + 1, data),
                                 Did("requestSchema", call.events + 1, Null)>>]
    /\ UNCHANGED <<now, credsPresent, coordVars, req, deployed, activity>>

\* Variant: with a schema the Next button is enabled before the catalog is asked
\* for.
SchemaSteps_EnablesAtOnce(data, id) ==
    IF ~Truthy(data) \/ ~Truthy(Get(data, K_schema))
          \/ Len(Get(data, K_schema).items) = 0
    THEN <<Did("updateButton", id, False)>>
    ELSE IF \E i \in DOMAIN Get(data, K_schema).items :
               Get(data, K_schema).items[i] \in {Null, Undefined}
    THEN <<>>
    ELSE <<Did("updateButton", id, True), Did("fetchTemplates", id, Null)>>

\* What the requestedSchema handler does until it returns or awaits: without a
\* schema it disables Next; else it builds the field picklist, which throws on a
\* field that is null, and calls populateDETemplates, which requests the catalog.
SchemaSteps(data, id) ==
    IF ~Truthy(data) \/ ~Truthy(Get(data, K_schema))
          \/ Len(Get(data, K_schema).items) = 0
    THEN <<Did("updateButton", id, False)>>
    ELSE IF \E i \in DOMAIN Get(data, K_schema).items :
               Get(data, K_schema).items[i] \in {Null, Undefined}
    THEN <<>>
    ELSE <<Did("fetchTemplates", id, Null)>>

\* connection.on('requestedSchema'), up to `await populateDETemplates()`
RequestedSchema(data) ==
    LET id == call.events + 1
        steps == SchemaSteps(data, id)
        valid == Truthy(data) /\ Truthy(Get(data, K_schema))
                   /\ Len(Get(data, K_schema).items) > 0
    IN  /\ Receives
        /\ call' = [call EXCEPT
                      !.events = id,
                      !.schemaFields = IF valid THEN Get(data, K_schema) ELSE @,
                      !.pending = IF \E i \in DOMAIN steps : steps[i].ev = "fetchTemplates"
                                  THEN @ \cup {id} ELSE @,
                      !.log = @ \o <<Did("requestedSchema", id, data)>> \o steps]
        /\ UNCHANGED <<now, credsPresent, coordVars, req, deployed, activity>>

\* fetch('/api/templates') of the handler invocation id settles, well or badly:
\* populateDETemplates returns either way, and the handler goes on with
\* loadFormData, which may throw, and enables Next.
TemplatesSettled(id, ok) ==
    /\ call.fn = "ui"
    /\ id \in call.pending
    /\ call' = [call EXCEPT
                  !.pending = @ \ {id},
                  !.log = @ \o <<Did("templatesSettled", id, IF ok THEN True ELSE False)>>
                            \o (IF loadFormDataThrows(call.payload) THEN <<>>
                                ELSE <<Did("loadFormData", id, call.payload),
                                       Did("updateButton", id, True)>>)]
    /\ UNCHANGED <<now, credsPresent, coordVars, req, deployed, activity>>

\* connection.on("clickedNext")
ClickedNext(form) ==
    LET saved == saveFormDataToPayload(call.payload, call.schemaFields, form)
    IN  /\ Receives
        /\ call' = [call EXCEPT
                      !.events = @ + 1,
                      !.payload = IF saved = Thrown THEN @ ELSE saved,
                      !.log = @ \o <<Did("clickedNext", call.events + 1, Null)>>
                                \o (IF saved = Thrown THEN <<>>
                                    ELSE <<Did("updateActivity", call.events + 1, saved)>>)]
        /\ UNCHANGED <<now, credsPresent, coordVars, req, deployed, activity>>

UiNext ==
    \/ \E data \in InitData : InitActivity(data)
    \/ \E data \in SchemaData : RequestedSchema(data)
    \/ \E form \in UiForms : ClickedNext(form)
    \/ \E id \in 1..MaxEvents : \E ok \in BOOLEAN : TemplatesSettled(id, ok)

UiSpec == UiInit /\ [][UiNext]_vars

\* The form has handled events
FormUsed == call.fn = "ui"

\* o.a.b.c, or undefined when an object on the way is missing
RECURSIVE GetPath(_, _)
GetPath(o, path) ==
    IF path = <<>> THEN o
    ELSE IF o.t = "obj" /\ HasKey(o, path[1])
         THEN GetPath(KeyValue(o, path[1]), Tail(path))
         ELSE Undefined

\* val is a binding: a string of the form {{...}}
IsBinding(val) == val.t = "str" /\ Braced(val.s)

\* C38: whatever the order of initActivity, requestedSchema and clickedNext,
\* updateActivity is triggered only with a payload whose metaData.isConfigured is
\* true and whose arguments.execute.inArguments is a list of one object that holds
\* bindings for phone, message and from, and only after an initActivity.
C38_OnlyCompletePayloadsSaved ==
    FormUsed =>
      \A i \in DOMAIN call.log :
         call.log[i].ev = "updateActivity" =>
           LET saved == call.log[i].arg
               inArguments == GetPath(saved, <<K_arguments, K_execute, K_inArguments>>)
           IN  /\ GetPath(saved, <<K_metaData, K_isConfigured>>) = True
               /\ inArguments.t = "arr"
               /\ Len(inArguments.items) = 1
               /\ inArguments.items[1].t = "obj"
               /\ \A k \in {K_phone, K_message, K_from} :
                     /\ HasKey(inArguments.items[1], k)
                     /\ IsBinding(KeyValue(inArguments.items[1], k))
               /\ \E j \in 1..(i - 1) : call.log[j].ev = "initActivity"

\* clickedNext came first and triggered nothing; after initActivity, and before any
\* schema, a second clickedNext triggered updateActivity with the payload marked
\* as configured and the fallback bindings.
C38_Witness ==
    /\ FormUsed
    /\ Len(call.log) = 6
    /\ call.log[2].ev = "clickedNext"
    /\ call.log[3].ev = "initActivity"
    /\ call.log[5].ev = "clickedNext"
    /\ call.log[6].ev = "updateActivity"
    /\ GetPath(call.log[6].arg, <<K_metaData, K_isConfigured>>) = True
    /\ KeyValue(GetPath(call.log[6].arg, <<K_arguments, K_execute, K_inArguments>>).items[1],
                K_phone) = FallbackBinding(MobilePhone)

\* data of requestedSchema carries a schema that is not empty
NonEmptySchema(data) ==
    /\ data.t = "obj"
    /\ HasKey(data, K_schema)
    /\ KeyValue(data, K_schema).t = "arr"
    /\ KeyValue(data, K_schema).items # <<>>

\* the form did ev in its handling of the requestedSchema event number id, at
\* some place of the log before place i
DidBefore(ev, id, i) ==
    \E j \in 1..(i - 1) : call.log[j].ev = ev /\ call.log[j].id = id

\* C39: the requestedSchema handler loads the saved form data and enables the Next
\* button only after its request of the template catalog has settled, well or
\* badly, and only when it was sent a schema that is not empty; sent an empty
\* schema or none, it disables Next and never requests the catalog.
C39_NextOnlyAfterCatalog ==
    FormUsed =>
      \A i \in DOMAIN call.log :
         LET did == call.log[i]
         IN  /\ (did.ev = "loadFormData" \/ (did.ev = "updateButton" /\ did.arg = True))
                => /\ \E j \in 1..(i - 1) :
                        /\ call.log[j].ev = "templatesSettled"
                        /\ call.log[j].id = did.id
                        /\ DidBefore("fetchTemplates", did.id, j)
                   /\ \E j \in 1..(i - 1) :
                        /\ call.log[j].ev = "requestedSchema"
                        /\ call.log[j].id = did.id
                        /\ NonEmptySchema(call.log[j].arg)
             /\ (did.ev = "requestedSchema" /\ ~NonEmptySchema(did.arg))
                => /\ i < Len(call.log)
                   /\ call.log[i + 1] = Did("updateButton", did.id, False)
                   /\ \A j \in DOMAIN call.log :
                         call.log[j].id = did.id =>
                           call.log[j].ev \in {"requestedSchema", "updateButton"}
                   /\ did.id \notin call.pending

\* A schema arrived and the catalog was requested, an empty schema arrived
\* meanwhile and Next was disabled, then the catalog request failed and only then
\* was the form loaded and Next enabled.
C39_Witness ==
    /\ FormUsed
    /\ \E i, j, k \in DOMAIN call.log :
          /\ i < j /\ j < k /\ k + 2 = Len(call.log)
          /\ call.log[i].ev = "fetchTemplates"
          /\ call.log[j] = Did("updateButton", call.log[j].id, False)
          /\ call.log[j].id > call.log[i].id
          /\ call.log[k] = Did("templatesSettled", call.log[i].id, False)
          /\ call.log[k + 1].ev = "loadFormData"
          /\ call.log[k + 2] = Did("updateButton", call.log[i].id, True)

====
